---------------------------- MODULE Spec2Model ----------------------------
(***************************************************************************)
(* A model of the Google Merchant product transformer of                   *)
(* feedology-google-merchant                                               *)
(* (dist/transformers/google-merchant-product.transformer.js).             *)
(*                                                                         *)
(* JavaScript values are modelled as follows.                              *)
(*   - a string is the sequence of its characters, each a one-character    *)
(*     TLA+ string: 'S1' is <<"S", "1">>, '' is <<>>;                      *)
(*   - undefined, null, true and false are the one-element sequences       *)
(*     Undefined, Null, True and False, whose element is longer than one   *)
(*     character, so that none of them is a string;                        *)
(*   - a number is <<"num", n, k>>, the decimal literal n / 10^k, which    *)
(*     the arithmetic below first converts to the IEEE-754 double nearest  *)
(*     to it, as the JavaScript engine does when it reads the literal;     *)
(*   - an object is a record; an optional object that is missing is NoObj; *)
(*   - the record transform returns has exactly the keys that the code     *)
(*     assigns, so that "key absent" is "not in DOMAIN".                   *)
(***************************************************************************)
EXTENDS Integers, Sequences, FiniteSets, TLC

VARIABLES
    input,      \* the composite input record handed to transform (caller-owned)
    given,      \* that record as the caller built it, before any call
    clock,      \* the wall clock, in ms after 2024-01-01T00:00:00.000Z
    calls,      \* number of transform calls made so far on this input
    out,        \* what the latest call returned (NoOutput before the first)
    outClock,   \* the clock reading of the latest call
    prev,       \* what the call before the latest returned
    prevClock,  \* the clock reading of the call before the latest
    googleMerchantProductTransformer,
                \* the exported singleton: the own properties of the instance
    tokenLike,  \* the token payload handed to getGoogleToken
    position,   \* where the getGoogleToken call stands
    readAt,     \* what Date.now() returned to the call
    refreshCalls,
                \* the arguments of the calls of oauthService.refreshAccessToken
    response,   \* what the OAuth2 client answered to the refresh
    settled     \* what the promise of getGoogleToken settled with

\* the state of the getGoogleToken call
tokenVars == <<tokenLike, position, readAt, refreshCalls, response, settled>>

\* the state of the transformer and of its caller
transformerVars ==
    <<input, given, calls, out, outClock, prev, prevClock,
      googleMerchantProductTransformer>>

vars == <<input, given, clock, calls, out, outClock, prev, prevClock,
          googleMerchantProductTransformer, tokenLike, position, readAt,
          refreshCalls, response, settled>>

----------------------------------------------------------------------------
(* Bounds of the model.                                                    *)

MaxCalls == 2

MaxClock == 1

----------------------------------------------------------------------------
(* JavaScript scalars.                                                     *)

Undefined == <<"undefined">>

Null == <<"null">>

True == <<"true">>

False == <<"false">>

NoObj == [absent |-> TRUE]

Has(obj) == "absent" \notin DOMAIN obj

Num(n, k) == <<"num", n, k>>

IsNum(v) == Len(v) = 3 /\ v[1] = "num"

IsNil(v) == v = Undefined \/ v = Null

\* ToBoolean: undefined, null, false, '' and 0 are falsy, all else truthy.
Truthy(v) ==
    /\ ~IsNil(v)
    /\ v # False
    /\ v # <<>>
    /\ ~(IsNum(v) /\ v[2] = 0)

\* a || b
Or(a, b) == IF Truthy(a) THEN a ELSE b

Digit(d) == <<"0", "1", "2", "3", "4", "5", "6", "7", "8", "9">>[d + 1]

RECURSIVE NatToString(_)
NatToString(n) ==
    IF n < 10 THEN <<Digit(n)>> ELSE NatToString(n \div 10) \o <<Digit(n % 10)>>

RECURSIVE Pow10(_)
Pow10(k) == IF k = 0 THEN 1 ELSE 10 * Pow10(k - 1)

----------------------------------------------------------------------------
(* String.prototype methods.                                               *)

Lower == [c \in {"A", "B", "C", "D", "E", "F", "G", "H", "I", "J", "K", "L",
                 "M", "N", "O", "P", "Q", "R", "S", "T", "U", "V", "W", "X",
                 "Y", "Z"} |->
    CASE c = "A" -> "a" [] c = "B" -> "b" [] c = "C" -> "c" [] c = "D" -> "d"
      [] c = "E" -> "e" [] c = "F" -> "f" [] c = "G" -> "g" [] c = "H" -> "h"
      [] c = "I" -> "i" [] c = "J" -> "j" [] c = "K" -> "k" [] c = "L" -> "l"
      [] c = "M" -> "m" [] c = "N" -> "n" [] c = "O" -> "o" [] c = "P" -> "p"
      [] c = "Q" -> "q" [] c = "R" -> "r" [] c = "S" -> "s" [] c = "T" -> "t"
      [] c = "U" -> "u" [] c = "V" -> "v" [] c = "W" -> "w" [] c = "X" -> "x"
      [] c = "Y" -> "y" [] c = "Z" -> "z"]

toLowerCase(s) ==
    [i \in 1..Len(s) |-> IF s[i] \in DOMAIN Lower THEN Lower[s[i]] ELSE s[i]]

toUpperCase(s) ==
    [i \in 1..Len(s) |->
        IF \E u \in DOMAIN Lower : Lower[u] = s[i]
        THEN CHOOSE u \in DOMAIN Lower : Lower[u] = s[i]
        ELSE s[i]]

\* whether pat occurs in s at position i (1-based)
MatchAt(s, pat, i) ==
    /\ i + Len(pat) - 1 <= Len(s)
    /\ SubSeq(s, i, i + Len(pat) - 1) = pat

\* String.prototype.indexOf, 1-based, 0 when pat does not occur
indexOf(s, pat) ==
    IF \E i \in 1..(Len(s) + 1) : MatchAt(s, pat, i)
    THEN CHOOSE i \in 1..(Len(s) + 1) :
            /\ MatchAt(s, pat, i)
            /\ \A j \in 1..(i - 1) : ~MatchAt(s, pat, j)
    ELSE 0

includes(s, pat) == indexOf(s, pat) # 0

WhiteSpace == {" ", "\t", "\n"}

RECURSIVE trimStart(_)
trimStart(s) ==
    IF s # <<>> /\ Head(s) \in WhiteSpace THEN trimStart(Tail(s)) ELSE s

RECURSIVE trimEnd(_)
trimEnd(s) ==
    IF s # <<>> /\ s[Len(s)] \in WhiteSpace
    THEN trimEnd(SubSeq(s, 1, Len(s) - 1))
    ELSE s

trim(s) == trimEnd(trimStart(s))

\* ToString of a value used in a concatenation or as a replacement
ToStr(v) ==
    IF v = Undefined THEN <<"u", "n", "d", "e", "f", "i", "n", "e", "d">>
    ELSE IF v = Null THEN <<"n", "u", "l", "l">>
    ELSE v

\* GetSubstitution of ECMA-262 for a string pattern (no capture groups):
\* in the replacement text $$ is a dollar sign, $& the matched text and $'
\* the text after the match; any other $ is literal. (The fourth pattern,
\* a dollar sign and a backquote for the text before the match, is left
\* out: the alphabet of the model has no backquote.)
RECURSIVE GetSubstitution(_, _, _)
GetSubstitution(repl, matched, after) ==
    IF repl = <<>> THEN <<>>
    ELSE IF Head(repl) = "$" /\ Len(repl) >= 2 /\ repl[2] \in {"$", "&", "'"}
    THEN (CASE repl[2] = "$" -> <<"$">>
            [] repl[2] = "&" -> matched
            [] repl[2] = "'" -> after)
         \o GetSubstitution(SubSeq(repl, 3, Len(repl)), matched, after)
    ELSE <<Head(repl)>> \o GetSubstitution(Tail(repl), matched, after)

\* String.prototype.replace(pattern, replacement) with a string pattern: the
\* first occurrence only, the replacement text expanded by GetSubstitution.
replace(s, pat, repl) ==
    LET i == indexOf(s, pat) IN
    IF i = 0 THEN s
    ELSE LET before == SubSeq(s, 1, i - 1)
             after == SubSeq(s, i + Len(pat), Len(s))
         IN before \o GetSubstitution(ToStr(repl), pat, after) \o after

\* the concatenation of a list of strings
RECURSIVE Concat(_)
Concat(ss) ==
    IF ss = <<>> THEN <<>>
    ELSE IF Len(ss) = 1 THEN ss[1]
    ELSE LET h == Len(ss) \div 2
         IN Concat(SubSeq(ss, 1, h)) \o Concat(SubSeq(ss, h + 1, Len(ss)))

\* Array.prototype.join
join(list, sep) ==
    LET text(v) == IF IsNil(v) THEN <<>> ELSE v
    IN Concat([i \in 1..Len(list) |->
                  IF i = 1 THEN text(list[i]) ELSE sep \o text(list[i])])

----------------------------------------------------------------------------
(* Number arithmetic: IEEE-754 binary64, round to nearest, ties to even.   *)
(* A double is [m, e]: m its 53 significand bits, most significant first   *)
(* (m[1] = 1), and e the exponent of the last bit, so that its value is    *)
(* m * 2^e. Zero is the double with no bits. The prices of the model stay  *)
(* far from the subnormal and overflow ranges.                             *)

Zero == [m |-> <<>>, e |-> 0]

Front(s) == SubSeq(s, 1, Len(s) - 1)

\* the numeral of n in w bits
ChunkBits(n, w) == [i \in 1..w |-> (n \div 2^(w - i)) % 2]

\* the number of bits of the natural number i (below 2^30)
BitLength(i) == CHOOSE n \in 0..30 : i < 2^n /\ (n = 0 \/ i >= 2^(n - 1))

IntBits(i) == ChunkBits(i, BitLength(i))

\* the value of a numeral of at most 30 bits
RECURSIVE BitsValue(_)
BitsValue(bits) ==
    IF bits = <<>> THEN 0
    ELSE IF Len(bits) = 1 THEN bits[1]
    ELSE LET h == Len(bits) \div 2
         IN BitsValue(SubSeq(bits, 1, h)) * 2^(Len(bits) - h)
            + BitsValue(SubSeq(bits, h + 1, Len(bits)))

\* bits without its leading zeros
StripZeros(bits) ==
    IF \A i \in 1..Len(bits) : bits[i] = 0 THEN <<>>
    ELSE SubSeq(bits,
                CHOOSE i \in 1..Len(bits) :
                    bits[i] = 1 /\ \A j \in 1..(i - 1) : bits[j] = 0,
                Len(bits))

\* b + 1
IncBits(b) ==
    IF \A i \in 1..Len(b) : b[i] = 1 THEN <<1>> \o [i \in 1..Len(b) |-> 0]
    ELSE LET z == CHOOSE i \in 1..Len(b) :
                      b[i] = 0 /\ \A j \in (i + 1)..Len(b) : b[j] = 1
         IN [i \in 1..Len(b) |-> IF i < z THEN b[i] ELSE IF i = z THEN 1 ELSE 0]

\* round the significand bits (with the guard bit g and the sticky flag of
\* what was cut off) to nearest, ties to even
RoundBits(bits, e, g, sticky) ==
    IF g = 1 /\ (sticky \/ bits[Len(bits)] = 1)
    THEN LET up == IncBits(bits) IN
         IF Len(up) > Len(bits) THEN [m |-> Front(up), e |-> e + 1]
         ELSE [m |-> up, e |-> e]
    ELSE [m |-> bits, e |-> e]

\* the first 8 n bits of the binary expansion of r / d by long division,
\* eight bits at a time, and the remainder that is left
RECURSIVE Expand(_, _, _)
Expand(r, d, n) ==
    IF n = 0 THEN [bits |-> <<>>, r |-> r]
    ELSE LET rest == Expand((r * 256) % d, d, n - 1)
         IN [bits |-> ChunkBits((r * 256) \div d, 8) \o rest.bits, r |-> rest.r]

\* the double nearest to the decimal literal n / 10^k
ToDouble(v) ==
    IF v[2] = 0 THEN Zero
    ELSE LET d == Pow10(v[3])
             int == IntBits(v[2] \div d)
             frac == Expand(v[2] % d, d, 16)
             all == int \o frac.bits
             first == CHOOSE i \in 1..Len(all) :
                          all[i] = 1 /\ \A j \in 1..(i - 1) : all[j] = 0
         IN RoundBits(SubSeq(all, first, first + 52), Len(int) - (first + 52),
                      all[first + 53],
                      frac.r # 0 \/ \E i \in (first + 54)..Len(all) : all[i] = 1)

\* bits * c + carry for a natural c of at most 20 bits, by schoolbook
\* multiplication from the last bits, eight bits at a time
RECURSIVE MulBits(_, _, _)
MulBits(bits, c, carry) ==
    IF bits = <<>> THEN IntBits(carry)
    ELSE LET w == IF Len(bits) < 8 THEN Len(bits) ELSE 8
             t == BitsValue(SubSeq(bits, Len(bits) - w + 1, Len(bits))) * c + carry
         IN MulBits(SubSeq(bits, 1, Len(bits) - w), c, t \div 2^w)
            \o ChunkBits(t % 2^w, w)

\* x * c in double arithmetic, c a natural number that is itself a double:
\* the exact product rounded to 53 bits
Times(x, c) ==
    IF x = Zero \/ c = 0 THEN Zero
    ELSE LET p == MulBits(x.m, c, 0)
             drop == Len(p) - 53
         IN IF drop = 0 THEN [m |-> p, e |-> x.e]
            ELSE RoundBits(SubSeq(p, 1, 53), x.e + drop, p[54],
                           \E i \in 55..Len(p) : p[i] = 1)

IsInteger(x) ==
    \/ x = Zero
    \/ x.e >= 0
    \/ /\ 0 - x.e < 53
       /\ \A i \in (53 + x.e + 1)..53 : x.m[i] = 0

\* the bits of the integer part of x
IntegerBits(x) ==
    IF x = Zero THEN <<>>
    ELSE IF x.e >= 0 THEN x.m \o [i \in 1..x.e |-> 0]
    ELSE IF 0 - x.e >= 53 THEN <<>>
    ELSE SubSeq(x.m, 1, 53 + x.e)

\* the bits of the fraction of x, as a fixed-point number of FracWidth(x) bits
FracWidth(x) == IF x = Zero \/ x.e >= 0 THEN 0 ELSE 0 - x.e

FracBits(x) ==
    IF FracWidth(x) = 0 THEN <<>>
    ELSE IF FracWidth(x) >= 53 THEN [i \in 1..(FracWidth(x) - 53) |-> 0] \o x.m
    ELSE SubSeq(x.m, 53 + x.e + 1, 53)

\* bits divided by ten, eight bits at a time from the first: the quotient
\* in as many bits as bits has, and the remainder
RECURSIVE DivChunks(_, _)
DivChunks(bits, rem) ==
    IF bits = <<>> THEN [q |-> <<>>, r |-> rem]
    ELSE LET w == IF Len(bits) < 8 THEN Len(bits) ELSE 8
             v == rem * 2^w + BitsValue(SubSeq(bits, 1, w))
             rest == DivChunks(SubSeq(bits, w + 1, Len(bits)), v % 10)
         IN [q |-> ChunkBits(v \div 10, w) \o rest.q, r |-> rest.r]

\* quotient bits (no leading zeros) and remainder
DivMod10(bits) ==
    LET d == DivChunks(bits, 0) IN [q |-> StripZeros(d.q), r |-> d.r]

\* decimal digits (as numbers, most significant first) of the integer bits
RECURSIVE IntDigits(_)
IntDigits(bits) ==
    IF bits = <<>> THEN <<>>
    ELSE LET qr == DivMod10(bits) IN Append(IntDigits(qr.q), qr.r)

\* exact decimal digits of a fixed-point fraction of w bits
RECURSIVE FracDigits(_, _)
FracDigits(bits, w) ==
    IF \A i \in 1..Len(bits) : bits[i] = 0 THEN <<>>
    ELSE LET p == MulBits(bits, 10, 0)
             pw == [i \in 1..(w + 4 - Len(p)) |-> 0] \o p
         IN <<BitsValue(SubSeq(pw, 1, 4))>> \o FracDigits(SubSeq(pw, 5, w + 4), w)

----------------------------------------------------------------------------
(* Lists, objects and the number-to-string conversion.                     *)

\* an array: never falsy, not even when empty
List(items) == <<"list", items>>

IsList(v) == Len(v) = 2 /\ v[1] = "list"

Items(l) == l[2]

\* obj?.f
Fld(obj, f) == IF Has(obj) THEN obj[f] ELSE Undefined

\* obj?.g for an object-valued g
Sub(obj, g) == IF Has(obj) THEN obj[g] ELSE NoObj

\* obj.f where obj may lack the key f
Get(obj, f) == IF f \in DOMAIN obj THEN obj[f] ELSE Undefined

\* obj.k = v
Set(obj, k, v) == [x \in DOMAIN obj \cup {k} |-> IF x = k THEN v ELSE obj[x]]

\* if (cond) obj.k = v
SetIf(cond, obj, k, v) == IF cond THEN Set(obj, k, v) ELSE obj

DigitsToString(ds) == [i \in 1..Len(ds) |-> Digit(ds[i])]

\* a < b for two digit sequences of one length
Less(a, b) ==
    \E i \in 1..Len(a) : a[i] < b[i] /\ \A j \in 1..(i - 1) : a[j] = b[j]

AllZero(ds) == \A i \in 1..Len(ds) : ds[i] = 0

\* 10^Len(t) - t in Len(t) digits, for t that is not zero
Complement(t) ==
    LET z == CHOOSE i \in 1..Len(t) :
                 t[i] # 0 /\ \A j \in (i + 1)..Len(t) : t[j] = 0
    IN [i \in 1..Len(t) |-> IF i < z THEN 9 - t[i]
                            ELSE IF i = z THEN 10 - t[i] ELSE 0]

\* ds + 1
IncDigits(ds) ==
    IF \A i \in 1..Len(ds) : ds[i] = 9 THEN <<1>> \o [i \in 1..Len(ds) |-> 0]
    ELSE LET z == CHOOSE i \in 1..Len(ds) :
                      ds[i] # 9 /\ \A j \in (i + 1)..Len(ds) : ds[j] = 9
         IN [i \in 1..Len(ds) |-> IF i < z THEN ds[i]
                                  ELSE IF i = z THEN ds[i] + 1 ELSE 0]

\* Number::toString of a non-negative double in the range that prints
\* without an exponent. An integer prints as its digits. Any other value
\* prints with the fewest fraction digits k such that a decimal of k
\* fraction digits still rounds to x, and of the two such decimals around x
\* the nearer one.
NumberToString(x) ==
    LET \* a decimal of k fraction digits is written from the digits of the
        \* fraction: X is the fraction of x and H half the distance to the
        \* next double, both in w + 1 fraction digits
        Shortest(whole, X, H, even, w) ==
            LET Within(a) == Less(a, H) \/ (a = H /\ even)
                zeros(n) == [i \in 1..n |-> 0]
                tail(n) == SubSeq(X, n + 1, w + 1)
                above(n) == zeros(n) \o Complement(tail(n))
                down(n) == Within(zeros(n) \o tail(n))
                up(n) == ~AllZero(tail(n)) /\ Within(above(n))
                near(n) == down(n) \/ up(n)
                Rounded(k, cut) ==
                    LET Placed(digits, point) ==
                            IF k = 0 THEN DigitsToString(digits)
                            ELSE DigitsToString(SubSeq(digits, 1, point))
                                 \o <<".">>
                                 \o DigitsToString(SubSeq(digits, point + 1,
                                                          Len(digits)))
                        Pointed(digits) == Placed(digits, Len(digits) - k)
                    IN Pointed(IF up(k) /\ (~down(k)
                                            \/ Less(above(k), zeros(k) \o tail(k)))
                               THEN IncDigits(cut) ELSE cut)
                Cut(k) == Rounded(k, whole \o SubSeq(X, 1, k))
            IN Cut(CHOOSE n \in 0..w :
                       near(n) /\ \A j \in 0..(n - 1) : ~near(j))
        Padded(whole, exact, H, w) ==
            Shortest(whole, exact \o [i \in 1..(w + 1 - Len(exact)) |-> 0], H,
                     x.m[53] = 0, w)
        Fraction(int, w) ==
            Padded(IF int = <<>> THEN <<0>> ELSE int,
                   FracDigits(FracBits(x), w),
                   FracDigits([i \in 1..(w + 1) |-> IF i = w + 1 THEN 1 ELSE 0],
                              w + 1),
                   w)
        Whole(int) == DigitsToString(IF int = <<>> THEN <<0>> ELSE int)
    IN IF IsInteger(x) THEN Whole(IntDigits(IntegerBits(x)))
       ELSE Fraction(IntDigits(IntegerBits(x)), FracWidth(x))

\* ToNumber of the operand of a multiplication: null is 0
ToNumber(v) == IF v = Null THEN Zero ELSE ToDouble(v)

Million == 1000000

----------------------------------------------------------------------------
(* The tracking token: base64 of the JSON text of                          *)
(* {feedId, shopId, createdAt}.                                            *)

\* printable ASCII from code 32 to 126 (the backquote, code 96, is not in
\* the alphabet of the model: its place holds the empty string)
Ascii ==
    <<" ", "!", "\"", "#", "$", "%", "&", "'", "(", ")", "*", "+", ",", "-",
      ".", "/", "0", "1", "2", "3", "4", "5", "6", "7", "8", "9", ":", ";",
      "<", "=", ">", "?", "@", "A", "B", "C", "D", "E", "F", "G", "H", "I",
      "J", "K", "L", "M", "N", "O", "P", "Q", "R", "S", "T", "U", "V", "W",
      "X", "Y", "Z", "[", "\\", "]", "^", "_", "", "a", "b", "c", "d", "e",
      "f", "g", "h", "i", "j", "k", "l", "m", "n", "o", "p", "q", "r", "s",
      "t", "u", "v", "w", "x", "y", "z", "{", "|", "}", "~">>

charCode == [c \in {Ascii[i] : i \in 1..Len(Ascii)} |->
                31 + CHOOSE i \in 1..Len(Ascii) : Ascii[i] = c]

Base64Alphabet ==
    <<"A", "B", "C", "D", "E", "F", "G", "H", "I", "J", "K", "L", "M", "N",
      "O", "P", "Q", "R", "S", "T", "U", "V", "W", "X", "Y", "Z", "a", "b",
      "c", "d", "e", "f", "g", "h", "i", "j", "k", "l", "m", "n", "o", "p",
      "q", "r", "s", "t", "u", "v", "w", "x", "y", "z", "0", "1", "2", "3",
      "4", "5", "6", "7", "8", "9", "+", "/">>

\* Buffer.from(text).toString('base64'), for ASCII text: the g-th group of
\* three bytes gives the g-th group of four characters
toBase64(s) ==
    LET byte(i) == IF i <= Len(s) THEN charCode[s[i]] ELSE 0
        group(g) == byte(3 * g - 2) * 65536 + byte(3 * g - 1) * 256 + byte(3 * g)
        char(g, j) ==
            IF j = 1 THEN Base64Alphabet[(group(g) \div 262144) + 1]
            ELSE IF j = 2 THEN Base64Alphabet[((group(g) \div 4096) % 64) + 1]
            ELSE IF j = 3
            THEN (IF 3 * g - 1 <= Len(s)
                  THEN Base64Alphabet[((group(g) \div 64) % 64) + 1] ELSE "=")
            ELSE (IF 3 * g <= Len(s)
                  THEN Base64Alphabet[(group(g) % 64) + 1] ELSE "=")
    IN [i \in 1..(4 * ((Len(s) + 2) \div 3)) |->
            char(((i - 1) \div 4) + 1, ((i - 1) % 4) + 1)]

\* JSON.stringify of a string: quoted, with " and \ escaped
JsonEscape(s) ==
    Concat([i \in 1..Len(s) |->
               IF s[i] \in {"\"", "\\"} THEN <<"\\", s[i]>> ELSE <<s[i]>>])

JsonValue(v) == IF v = Null THEN <<"n", "u", "l", "l">> ELSE <<"\"">> \o JsonEscape(v) \o <<"\"">>

\* JSON.stringify of an object given as a list of <<key, value>>: a member
\* whose value is undefined is left out
JsonStringify(members) ==
    LET kept == SelectSeq(members, LAMBDA kv : kv[2] # Undefined)
        text == [i \in 1..Len(kept) |->
                    <<"\"">> \o kept[i][1] \o <<"\"", ":">> \o JsonValue(kept[i][2])]
    IN <<"{">> \o join(text, <<",">>) \o <<"}">>

\* new Date().toISOString(), the clock counting the milliseconds of the
\* first second of 2024
toISOString(now) ==
    <<"2", "0", "2", "4", "-", "0", "1", "-", "0", "1", "T", "0", "0", ":", "0", "0", ":", "0", "0", ".">>
    \o <<Digit(now \div 100), Digit((now \div 10) % 10), Digit(now % 10)>>
    \o <<"Z">>

encryptToString(data) == toBase64(JsonStringify(data))

----------------------------------------------------------------------------
(* Constants of types/transformer-input.js.                                *)

BRAND_SOURCE_TYPES ==
    [VENDOR |-> <<"v", "e", "n", "d", "o", "r">>, STORE_NAME |-> <<"s", "t", "o", "r", "e", "_", "n", "a", "m", "e">>,
     PRIMARY_DOMAIN |-> <<"p", "r", "i", "m", "a", "r", "y", "_", "d", "o", "m", "a", "i", "n">>]

PRICE_TYPES == [PRICE |-> <<"p", "r", "i", "c", "e">>, COMPARE_AT_PRICE |-> <<"c", "o", "m", "p", "a", "r", "e", "_", "a", "t", "_", "p", "r", "i", "c", "e">>]

PRODUCT_TYPE_FIELDS ==
    [PRODUCT_TYPE |-> <<"p", "r", "o", "d", "u", "c", "t", "_", "t", "y", "p", "e">>, CATEGORY_NAME |-> <<"c", "a", "t", "e", "g", "o", "r", "y", "_", "n", "a", "m", "e">>,
     CATEGORY_FULLNAME |-> <<"c", "a", "t", "e", "g", "o", "r", "y", "_", "f", "u", "l", "l", "n", "a", "m", "e">>,
     COLLECTIONS |-> <<"c", "o", "l", "l", "e", "c", "t", "i", "o", "n", "s">>, TAGS |-> <<"t", "a", "g", "s">>]

PRODUCT_URL_SOURCE_TYPES ==
    [PRODUCT_URL |-> <<"p", "r", "o", "d", "u", "c", "t", "_", "u", "r", "l">>,
     PRODUCT_CHECKOUT_URL |-> <<"p", "r", "o", "d", "u", "c", "t", "_", "c", "h", "e", "c", "k", "o", "u", "t", "_", "u", "r", "l">>,
     CANONICAL_URL |-> <<"c", "a", "n", "o", "n", "i", "c", "a", "l", "_", "u", "r", "l">>]

PRODUCT_IDENTIFIER_TYPES == [NO |-> <<"n", "o">>, GTIN |-> <<"g", "t", "i", "n">>, MPN |-> <<"m", "p", "n">>]

INVENTORY_TYPES ==
    [SHOPIFY_INVENTORY |-> <<"s", "h", "o", "p", "i", "f", "y", "_", "i", "n", "v", "e", "n", "t", "o", "r", "y">>,
     OUT_OF_STOCK |-> <<"o", "u", "t", "_", "o", "f", "_", "s", "t", "o", "c", "k">>, CUSTOM |-> <<"c", "u", "s", "t", "o", "m">>]

----------------------------------------------------------------------------
(* The field resolvers of GoogleMerchantProductTransformer.                *)

getItemGroupId(feedProductVariant) ==
    LET productDetails == Sub(feedProductVariant.field_mapping, "product_details")
    IN IF Has(productDetails) /\ Truthy(productDetails.item_group_id)
       THEN replace(replace(productDetails.item_group_id,
                            <<"{", "{", "p", "r", "o", "d", "u", "c", "t", "_", "i", "d", "}", "}">>, feedProductVariant.product_id),
                    <<"{", "{", "v", "a", "r", "i", "a", "n", "t", "_", "i", "d", "}", "}">>, feedProductVariant.variant_id)
       ELSE feedProductVariant.product_id

\* getProductId with the two sources in the other order: the template of
\* the feed first, the offer_id of the metadata only without a template
getProductIdTemplateFirst(feed, feedProductVariant) ==
    LET offer_id == Fld(Sub(feedProductVariant.metadata, "google_merchant_center"),
                        "offer_id")
        productId == Fld(feed.product_settings, "product_id")
    IN IF Truthy(productId)
       THEN Or(replace(replace(replace(productId,
                                       <<"{", "{", "s", "h", "o", "p", "_", "i", "d", "}", "}">>, feed.shop_id),
                               <<"{", "{", "p", "r", "o", "d", "u", "c", "t", "_", "i", "d", "}", "}">>, feedProductVariant.product_id),
                       <<"{", "{", "v", "a", "r", "i", "a", "n", "t", "_", "i", "d", "}", "}">>, feedProductVariant.variant_id),
               <<>>)
       ELSE IF Truthy(offer_id) THEN offer_id
       ELSE <<>>

getProductId(feed, feedProductVariant) ==
    LET offer_id == Fld(Sub(feedProductVariant.metadata, "google_merchant_center"),
                        "offer_id")
        productId == Fld(feed.product_settings, "product_id")
    IN IF Truthy(offer_id) THEN offer_id
       ELSE IF Truthy(productId)
       THEN Or(replace(replace(replace(productId,
                                       <<"{", "{", "s", "h", "o", "p", "_", "i", "d", "}", "}">>, feed.shop_id),
                               <<"{", "{", "p", "r", "o", "d", "u", "c", "t", "_", "i", "d", "}", "}">>, feedProductVariant.product_id),
                       <<"{", "{", "v", "a", "r", "i", "a", "n", "t", "_", "i", "d", "}", "}">>, feedProductVariant.variant_id),
               <<>>)
       ELSE <<>>

\* product.seo.title || '' when product.seo is an object, '' otherwise
seoField(product, f) ==
    IF Has(Sub(product, "seo")) THEN Or(product.seo[f], <<>>) ELSE <<>>

getTitle(feed, product, variant, feedProductVariant) ==
    LET productDetails == Sub(feedProductVariant.field_mapping, "product_details")
        title == IF Has(productDetails) /\ Truthy(productDetails.product_title)
                 THEN productDetails.product_title
                 ELSE Or(Fld(feed.product_settings, "product_title"), <<>>)
        t1 == replace(title, <<"{", "{", "p", "r", "o", "d", "u", "c", "t", "_", "t", "i", "t", "l", "e", "}", "}">>, Or(Fld(product, "title"), <<>>))
        t2 == replace(t1, <<"{", "{", "v", "a", "r", "i", "a", "n", "t", "_", "t", "i", "t", "l", "e", "}", "}">>, Or(variant.title, <<>>))
        t3 == replace(t2, <<"{", "{", "d", "i", "s", "p", "l", "a", "y", "_", "n", "a", "m", "e", "}", "}">>,
                      Or(variant.display_name, Or(Fld(product, "title"), <<>>)))
        t4 == replace(t3, <<"{", "{", "s", "e", "o", "_", "t", "i", "t", "l", "e", "}", "}">>, seoField(product, "title"))
        t5 == replace(t4, <<"{", "{", "s", "k", "u", "}", "}">>, Or(variant.sku, <<>>))
    IN replace(t5, <<"{", "{", "b", "a", "r", "c", "o", "d", "e", "}", "}">>, Or(variant.barcode, <<>>))

getDescription(feed, product, variant, feedProductVariant) ==
    LET productDetails == Sub(feedProductVariant.field_mapping, "product_details")
        description == IF Has(productDetails) /\ Truthy(productDetails.description)
                       THEN productDetails.description
                       ELSE Or(Fld(feed.product_settings, "product_description"), <<>>)
        d1 == replace(description, <<"{", "{", "d", "e", "s", "c", "r", "i", "p", "t", "i", "o", "n", "}", "}">>,
                      Or(Fld(product, "description"), <<>>))
    IN replace(d1, <<"{", "{", "s", "e", "o", "_", "d", "e", "s", "c", "r", "i", "p", "t", "i", "o", "n", "}", "}">>, seoField(product, "description"))

\* getAccountId with a default account in place of the empty string
getAccountIdOrDefault(feed) ==
    LET account_id == Fld(Sub(Sub(feed.metadata, "google_merchant_center"),
                              "account"), "account_id")
    IN IF ~Truthy(account_id) THEN <<"0">> ELSE account_id

getAccountId(feed) ==
    LET account_id == Fld(Sub(Sub(feed.metadata, "google_merchant_center"),
                              "account"), "account_id")
    IN IF ~Truthy(account_id) THEN <<>> ELSE account_id

\* String(n * 1000000)
MicrosString(n) == NumberToString(Times(ToNumber(n), Million))

getPriceAmountMicros(product, variant, feedProductVariant) ==
    LET productDetails == Sub(feedProductVariant.field_mapping, "product_details")
        nested == IF Has(productDetails)
                     /\ "price_condition_availability" \in DOMAIN productDetails
                  THEN productDetails.price_condition_availability
                  ELSE NoObj
        priceType == IF Has(nested) /\ Truthy(nested.price)
                     THEN nested.price
                     ELSE <<"p", "r", "i", "c", "e">>
        priceAmountMicros ==
            IF priceType = <<"p", "r", "i", "c", "e">>
            THEN (IF Truthy(variant.price) THEN variant.price ELSE Num(0, 0))
            ELSE IF priceType = <<"c", "o", "m", "p", "a", "r", "e", "_", "a", "t", "_", "p", "r", "i", "c", "e">>
            THEN (IF Truthy(variant.compare_at_price)
                  THEN variant.compare_at_price ELSE Num(0, 0))
            ELSE Num(0, 0)
    IN MicrosString(priceAmountMicros)

\* getBrand with the order of the two selectors exchanged: the feed setting
\* first, the override only when the setting is empty
getBrandSettingFirst(feed, shop, product, feedProductVariant) ==
    LET productDetails == Sub(feedProductVariant.field_mapping, "product_details")
        brandSource == IF Truthy(Fld(feed.product_settings, "brand_submission"))
                       THEN feed.product_settings.brand_submission
                       ELSE IF Has(productDetails) /\ Truthy(productDetails.brand)
                       THEN productDetails.brand
                       ELSE Null
        brand == IF ~Truthy(brandSource) THEN Null
                 ELSE IF brandSource = BRAND_SOURCE_TYPES.VENDOR
                 THEN Or(Fld(product, "vendor"), Null)
                 ELSE IF brandSource = BRAND_SOURCE_TYPES.STORE_NAME
                 THEN Or(shop.shop_name, Null)
                 ELSE IF brandSource = BRAND_SOURCE_TYPES.PRIMARY_DOMAIN
                 THEN Or(shop.domain, Null)
                 ELSE Null
    IN Or(brand, Null)

getBrand(feed, shop, product, feedProductVariant) ==
    LET productDetails == Sub(feedProductVariant.field_mapping, "product_details")
        brandSource == IF Has(productDetails) /\ Truthy(productDetails.brand)
                       THEN productDetails.brand
                       ELSE Or(Fld(feed.product_settings, "brand_submission"), Null)
        brand == IF ~Truthy(brandSource) THEN Null
                 ELSE IF brandSource = BRAND_SOURCE_TYPES.VENDOR
                 THEN Or(Fld(product, "vendor"), Null)
                 ELSE IF brandSource = BRAND_SOURCE_TYPES.STORE_NAME
                 THEN Or(shop.shop_name, Null)
                 ELSE IF brandSource = BRAND_SOURCE_TYPES.PRIMARY_DOMAIN
                 THEN Or(shop.domain, Null)
                 ELSE Null
    IN Or(brand, Null)

getIdentifierExists(feedProductVariant) ==
    LET productDetails == Sub(feedProductVariant.field_mapping, "product_details")
    IN IF Has(productDetails) /\ Truthy(productDetails.product_identifier)
       THEN productDetails.product_identifier
       ELSE False

replaceTemplateVariables(template, variant, feedProductVariant) ==
    replace(replace(replace(replace(template,
                                    <<"{", "{", "b", "a", "r", "c", "o", "d", "e", "}", "}">>, Or(variant.barcode, <<>>)),
                            <<"{", "{", "s", "k", "u", "}", "}">>, Or(variant.sku, <<>>)),
                    <<"{", "{", "p", "r", "o", "d", "u", "c", "t", "_", "i", "d", "}", "}">>, feedProductVariant.product_id),
            <<"{", "{", "v", "a", "r", "i", "a", "n", "t", "_", "i", "d", "}", "}">>, feedProductVariant.variant_id)

\* isValid without the trim: a value of white space passes
isValidUntrimmed(value) == Truthy(value)

\* value && value.trim() !== ''
isValid(value) == Truthy(value) /\ trim(value) # <<>>

\* getGtinsMpn returning both valid values under either identifier type
getGtinsMpnBoth(feed, variant, feedProductVariant) ==
    LET productIdentifierType == Fld(feed.product_settings, "product_identifier")
        productDetails == Sub(feedProductVariant.field_mapping, "product_details")
        gtinTemplate == IF Truthy(Fld(productDetails, "gtin"))
                        THEN replaceTemplateVariables(productDetails.gtin, variant,
                                                      feedProductVariant)
                        ELSE Undefined
        mpnTemplate == IF Truthy(Fld(productDetails, "mpn"))
                       THEN replaceTemplateVariables(productDetails.mpn, variant,
                                                     feedProductVariant)
                       ELSE Undefined
        Both(gtin, mpn) ==
            IF ~isValid(gtin) /\ ~isValid(mpn) THEN NoObj
            ELSE [gtins |-> IF isValid(gtin) THEN List(<<gtin>>) ELSE Null,
                  mpn |-> IF isValid(mpn) THEN mpn ELSE Null]
    IN IF ~Truthy(getIdentifierExists(feedProductVariant)) THEN NoObj
       ELSE IF productIdentifierType \in {PRODUCT_IDENTIFIER_TYPES.GTIN,
                                          PRODUCT_IDENTIFIER_TYPES.MPN}
       THEN Both(gtinTemplate, mpnTemplate)
       ELSE NoObj

\* null is NoObj; otherwise the record {gtins, mpn}
getGtinsMpn(feed, variant, feedProductVariant) ==
    LET productIdentifierType == Fld(feed.product_settings, "product_identifier")
        productDetails == Sub(feedProductVariant.field_mapping, "product_details")
        gtinTemplate == IF Truthy(Fld(productDetails, "gtin"))
                        THEN replaceTemplateVariables(productDetails.gtin, variant,
                                                      feedProductVariant)
                        ELSE Undefined
        mpnTemplate == IF Truthy(Fld(productDetails, "mpn"))
                       THEN replaceTemplateVariables(productDetails.mpn, variant,
                                                     feedProductVariant)
                       ELSE Undefined
        validGtins == IF isValid(gtinTemplate) THEN <<gtinTemplate>> ELSE <<>>
        validMpn == IF isValid(mpnTemplate) THEN mpnTemplate ELSE Undefined
    IN IF ~Truthy(getIdentifierExists(feedProductVariant)) THEN NoObj
       ELSE IF ~Truthy(productIdentifierType)
               \/ productIdentifierType = PRODUCT_IDENTIFIER_TYPES.NO
       THEN NoObj
       ELSE IF productIdentifierType = PRODUCT_IDENTIFIER_TYPES.GTIN
       THEN (IF Len(validGtins) > 0
             THEN [gtins |-> List(validGtins), mpn |-> Null] ELSE NoObj)
       ELSE IF productIdentifierType = PRODUCT_IDENTIFIER_TYPES.MPN
       THEN (IF Truthy(validMpn)
             THEN [gtins |-> Null, mpn |-> validMpn] ELSE NoObj)
       ELSE NoObj

\* the 'name=value' entries, in the order in which the code pushes them
utmParameters(feed, feedProductVariant, now) ==
    LET links == Sub(feedProductVariant.field_mapping, "links")
        Param(obj, f, name) ==
            IF Has(obj) /\ Truthy(obj[f])
            THEN <<name \o <<"=">> \o ToStr(obj[f])>> ELSE <<>>
        utm_source == <<"u", "t", "m", "_", "s", "o", "u", "r", "c", "e">>
        utm_medium == <<"u", "t", "m", "_", "m", "e", "d", "i", "u", "m">>
        utm_campaign == <<"u", "t", "m", "_", "c", "a", "m", "p", "a", "i", "g", "n">>
    IN Param(feed.tracking, "utm_source", utm_source)
       \o Param(feed.tracking, "utm_medium", utm_medium)
       \o Param(feed.tracking, "utm_campaign", utm_campaign)
       \o Param(links, "utm_source", utm_source)
       \o Param(links, "utm_medium", utm_medium)
       \o Param(links, "utm_campaign", utm_campaign)
       \o <<<<"f", "d", "c", "l", "i", "d", "=">> \o encryptToString(<<
                <<<<"f", "e", "e", "d", "I", "d">>, feed.id>>,
                <<<<"s", "h", "o", "p", "I", "d">>, feed.shop_id>>,
                <<<<"c", "r", "e", "a", "t", "e", "d", "A", "t">>, toISOString(now)>> >>)>>

\* addUtmParameters that starts the parameters with '?' whatever the link
addUtmParametersAsQuery(link, feed, feedProductVariant, now) ==
    link \o <<"?">> \o join(utmParameters(feed, feedProductVariant, now), <<"&">>)

addUtmParameters(link, feed, feedProductVariant, now) ==
    IF includes(link, <<"?">>)
    THEN link \o <<"&">> \o join(utmParameters(feed, feedProductVariant, now), <<"&">>)
    ELSE link \o <<"?">> \o join(utmParameters(feed, feedProductVariant, now), <<"&">>)

\* getLink whose switch falls back on the product link with the variant id
\* for every source type other than the checkout link
getLinkWithVariant(shop, feed, product, variant, feedProductVariant, now) ==
    LET links == Sub(feedProductVariant.field_mapping, "links")
        linkType == IF Has(links) /\ Truthy(links.product_url)
                    THEN links.product_url
                    ELSE PRODUCT_URL_SOURCE_TYPES.PRODUCT_URL
        link == IF linkType = PRODUCT_URL_SOURCE_TYPES.PRODUCT_CHECKOUT_URL
                THEN ToStr(shop.domain) \o <<"/", "c", "a", "r", "t", "/">> \o ToStr(variant.id)
                     \o <<":", "1", "?", "s", "t", "o", "r", "e", "f", "r", "o", "n", "t", "=", "t", "r", "u", "e">>
                ELSE ToStr(shop.domain) \o <<"/", "p", "r", "o", "d", "u", "c", "t", "s", "/">> \o ToStr(product.handle)
                     \o <<"?", "v", "a", "r", "i", "a", "n", "t", "=">> \o ToStr(variant.id)
    IN <<"h", "t", "t", "p", "s", ":", "/", "/">> \o addUtmParameters(link, feed, feedProductVariant, now)

getLink(shop, feed, product, variant, feedProductVariant, now) ==
    LET links == Sub(feedProductVariant.field_mapping, "links")
        linkType == IF Has(links) /\ Truthy(links.product_url)
                    THEN links.product_url
                    ELSE PRODUCT_URL_SOURCE_TYPES.PRODUCT_URL
        base == ToStr(shop.domain) \o <<"/", "p", "r", "o", "d", "u", "c", "t", "s", "/">> \o ToStr(product.handle)
        link == IF linkType = PRODUCT_URL_SOURCE_TYPES.PRODUCT_URL
                THEN base \o <<"?", "v", "a", "r", "i", "a", "n", "t", "=">> \o ToStr(variant.id)
                ELSE IF linkType = PRODUCT_URL_SOURCE_TYPES.PRODUCT_CHECKOUT_URL
                THEN ToStr(shop.domain) \o <<"/", "c", "a", "r", "t", "/">> \o ToStr(variant.id)
                     \o <<":", "1", "?", "s", "t", "o", "r", "e", "f", "r", "o", "n", "t", "=", "t", "r", "u", "e">>
                ELSE base
    IN <<"h", "t", "t", "p", "s", ":", "/", "/">> \o addUtmParameters(link, feed, feedProductVariant, now)

\* getCanonicalLink built as the default product link is: with the variant
\* id (the method has no variant, so the id is the feed's here)
getCanonicalLinkTracked(shop, feed, product) ==
    <<"h", "t", "t", "p", "s", ":", "/", "/">> \o ToStr(shop.domain) \o <<"/", "p", "r", "o", "d", "u", "c", "t", "s", "/">> \o ToStr(product.handle)
    \o <<"?", "v", "a", "r", "i", "a", "n", "t", "=">> \o ToStr(feed.id)

getCanonicalLink(shop, feed, product) ==
    <<"h", "t", "t", "p", "s", ":", "/", "/">> \o ToStr(shop.domain) \o <<"/", "p", "r", "o", "d", "u", "c", "t", "s", "/">> \o ToStr(product.handle)


getImageLink(mainImage, feedProductVariant) ==
    LET productImages == Sub(feedProductVariant.field_mapping, "product_images")
    IN IF Has(productImages) /\ Truthy(productImages.main_image)
       THEN productImages.main_image
       ELSE mainImage

getAdditionalImageLinks(feedProductVariant) ==
    LET productImages == Sub(feedProductVariant.field_mapping, "product_images")
    IN IF Has(productImages) /\ Truthy(productImages.additional_images)
       THEN productImages.additional_images
       ELSE List(<<>>)

getPrice(variant, feedProductVariant) ==
    LET priceConditionAvailability ==
            Sub(feedProductVariant.field_mapping, "price_condition_availability")
        priceType == IF Has(priceConditionAvailability)
                        /\ Truthy(priceConditionAvailability.price)
                     THEN priceConditionAvailability.price
                     ELSE PRICE_TYPES.PRICE
    IN IF priceType = PRICE_TYPES.PRICE
       THEN MicrosString(Or(variant.price, Num(0, 0)))
       ELSE IF priceType = PRICE_TYPES.COMPARE_AT_PRICE
       THEN MicrosString(Or(variant.compare_at_price, Num(0, 0)))
       ELSE Null

\* salePriceEnabled without the first early return, the one on the feed's
\* own setting
salePriceEnabledByMapping(feed, feedProductVariant) ==
    LET priceConditionAvailability ==
            Sub(feedProductVariant.field_mapping, "price_condition_availability")
    IN /\ Has(priceConditionAvailability)
       /\ Truthy(priceConditionAvailability.enable_sale_price)

\* the three early returns of getSalePrice: false when it returns null
salePriceEnabled(feed, feedProductVariant) ==
    LET priceConditionAvailability ==
            Sub(feedProductVariant.field_mapping, "price_condition_availability")
    IN /\ Truthy(Fld(feed.product_settings, "enable_sale_price"))
       /\ Has(priceConditionAvailability)
       /\ Truthy(priceConditionAvailability.enable_sale_price)

\* null is NoObj; otherwise the record {salePrice, salePriceEffectiveDate}
getSalePrice(feed, variant, feedProductVariant) ==
    LET priceConditionAvailability ==
            Sub(feedProductVariant.field_mapping, "price_condition_availability")
        salePriceType == priceConditionAvailability.sale_price
        amountMicros ==
            IF Truthy(salePriceType) /\ salePriceType = PRICE_TYPES.PRICE
            THEN MicrosString(Or(variant.price, Num(0, 0)))
            ELSE IF Truthy(salePriceType)
                    /\ salePriceType = PRICE_TYPES.COMPARE_AT_PRICE
            THEN MicrosString(Or(variant.compare_at_price, Num(0, 0)))
            ELSE <<>>
        saleStartDate == priceConditionAvailability.sale_start_date
        saleEndDate == priceConditionAvailability.sale_end_date
        d0 == <<>>
        d1 == SetIf(Truthy(saleStartDate), d0, "startTime", saleStartDate)
        d2 == SetIf(Truthy(saleEndDate), d1, "endTime", saleEndDate)
    IN IF ~salePriceEnabled(feed, feedProductVariant) THEN NoObj
       ELSE [salePrice |-> [amountMicros |-> amountMicros, currencyCode |-> <<>>],
             salePriceEffectiveDate |-> d2]

\* field_mapping.price_condition_availability[f] when truthy, else null
pcaOverride(feedProductVariant, f) ==
    LET priceConditionAvailability ==
            Sub(feedProductVariant.field_mapping, "price_condition_availability")
    IN IF Has(priceConditionAvailability) /\ Truthy(priceConditionAvailability[f])
       THEN priceConditionAvailability[f]
       ELSE Null

getAutoPricingMinPrice(feedProductVariant) ==
    pcaOverride(feedProductVariant, "auto_pricing_min_price")

getMaximumRetailPrice(feedProductVariant) ==
    pcaOverride(feedProductVariant, "maximum_retail_price")

getCondition(feedProductVariant) == pcaOverride(feedProductVariant, "condition")

getAvailability(feed, feedProductVariant) ==
    LET type == Fld(feed.inventory, "type")
        default == IF ~Truthy(type) THEN Null
                   ELSE IF type = INVENTORY_TYPES.CUSTOM
                           /\ Truthy(feed.inventory.custom_setting)
                   THEN feed.inventory.custom_setting
                   ELSE type
    IN Or(pcaOverride(feedProductVariant, "availability"), default)

getProductType(product, feedProductVariant) ==
    LET productTypeField == Or(pcaOverride(feedProductVariant, "product_type"),
                               PRODUCT_TYPE_FIELDS.PRODUCT_TYPE)
        collections == Fld(Sub(product, "collections"), "collections")
        tags == Fld(Sub(product, "tags"), "tags")
        titles == [i \in 1..Len(Items(collections)) |->
                      Get(Items(collections)[i], "title")]
    IN IF productTypeField = PRODUCT_TYPE_FIELDS.PRODUCT_TYPE
       THEN (IF Truthy(Fld(product, "product_type"))
             THEN List(<<product.product_type>>) ELSE Null)
       ELSE IF productTypeField = PRODUCT_TYPE_FIELDS.CATEGORY_NAME
       THEN (IF Truthy(Fld(Sub(product, "category"), "name"))
             THEN List(<<product.category.name>>) ELSE Null)
       ELSE IF productTypeField = PRODUCT_TYPE_FIELDS.CATEGORY_FULLNAME
       THEN (IF Truthy(Fld(Sub(product, "category"), "full_name"))
             THEN List(<<product.category.full_name>>) ELSE Null)
       ELSE IF productTypeField = PRODUCT_TYPE_FIELDS.COLLECTIONS
       THEN (IF Truthy(collections)
             THEN List(SelectSeq(titles, LAMBDA t : Truthy(t))) ELSE Null)
       ELSE IF productTypeField = PRODUCT_TYPE_FIELDS.TAGS
       THEN (IF Truthy(tags) THEN tags ELSE Null)
       ELSE Null

getGoogleProductCategory(feed, feedProductVariant) ==
    LET id == Fld(Sub(feed.metadata, "google_merchant_center"), "product_category_id")
        text == IF IsNil(id) THEN Undefined
                ELSE IF IsNum(id) THEN NumberToString(ToDouble(id))
                ELSE id
    IN Or(pcaOverride(feedProductVariant, "google_product_category"), Or(text, Null))

getCustomLabels(feedProductVariant) ==
    LET labels == Sub(feedProductVariant.field_mapping, "labels")
        Label(f) == IF Truthy(labels[f]) THEN <<labels[f]>> ELSE <<>>
    IN IF ~Has(labels) THEN <<>>
       ELSE Label("custom_label_0") \o Label("custom_label_1")
            \o Label("custom_label_2") \o Label("custom_label_3")
            \o Label("custom_label_4")

\* the assignments of the form x.f = x.f change nothing
getApparelProductDetails(feedProductVariant) ==
    Sub(feedProductVariant.field_mapping, "apparel_product_details")

\* the list that replaces additional_details.certifications
renamedCertifications(certifications) ==
    List([i \in 1..Len(Items(certifications)) |->
        [certificationAuthority |-> Or(Get(Items(certifications)[i], "authority"), <<>>),
         certificationName |-> Or(Get(Items(certifications)[i], "name"), <<>>),
         certificationCode |-> Or(Get(Items(certifications)[i], "code"), <<>>),
         certificationValue |-> Or(Get(Items(certifications)[i], "value"), <<>>)]])

\* the additional_details object after the call: the object of the input
\* itself, its certifications assigned in place
getAdditionalDetails(feedProductVariant) ==
    LET additionalDetails == Sub(feedProductVariant.field_mapping, "additional_details")
    IN IF Has(additionalDetails) /\ Truthy(additionalDetails.certifications)
       THEN [additionalDetails EXCEPT
                !.certifications = renamedCertifications(additionalDetails.certifications)]
       ELSE additionalDetails

\* the assignments of the form x.f = x.f change nothing
getShippingAndReturns(feedProductVariant) ==
    Sub(feedProductVariant.field_mapping, "shipping_and_returns")

getReturnPolicyLabels(feedProductVariant) ==
    LET shippingAndReturns == Sub(feedProductVariant.field_mapping, "shipping_and_returns")
    IN IF Has(shippingAndReturns) /\ Truthy(shippingAndReturns.return_policy_labels)
       THEN shippingAndReturns.return_policy_labels
       ELSE Null

\* the object is modelled by the list of its <<name, value>> entries, in
\* the order of Object.entries
getAdditionalProductAttributes(feedProductVariant) ==
    Sub(feedProductVariant.field_mapping, "additional_product_attributes")


----------------------------------------------------------------------------
(* parseFloat and Math.round, for the two price overrides.                 *)

NaN == <<"NaN">>

Digits == {"0", "1", "2", "3", "4", "5", "6", "7", "8", "9"}

DigitValue(c) == CHOOSE d \in 0..9 : Digit(d) = c

\* the length of the longest prefix of s made of decimal digits
RECURSIVE DigitPrefix(_)
DigitPrefix(s) ==
    IF s # <<>> /\ Head(s) \in Digits THEN 1 + DigitPrefix(Tail(s)) ELSE 0

RECURSIVE DigitsValue(_)
DigitsValue(s) ==
    IF s = <<>> THEN 0 ELSE 10 * DigitsValue(Front(s)) + DigitValue(s[Len(s)])

\* parseFloat of a number, or of a string: leading white space skipped, then
\* the longest prefix of the form digits[.digits] (a sign or an exponent is
\* not in the alphabet of the model's price overrides); NaN when there is no
\* such prefix
parseFloat(v) ==
    IF IsNum(v) THEN v
    ELSE LET s == trimStart(v)
             i == DigitPrefix(s)
             rest == SubSeq(s, i + 1, Len(s))
             f == IF rest # <<>> /\ Head(rest) = "." THEN DigitPrefix(Tail(rest)) ELSE 0
         IN IF i = 0 /\ f = 0 THEN NaN
            ELSE Num(DigitsValue(SubSeq(s, 1, i) \o SubSeq(rest, 2, f + 1)), f)

\* String(Math.round(x)): the integer nearest to x, a half rounded up
MathRoundString(x) ==
    LET int == IntegerBits(x)
        up == ~IsInteger(x) /\ FracBits(x)[1] = 1
        digits == IntDigits(IF up THEN IncBits(int) ELSE int)
    IN IF digits = <<>> THEN <<"0">> ELSE DigitsToString(digits)

\* {amountMicros: String(Math.round(parseFloat(v) * 1000000)), currencyCode}
microsPrice(v, currencyCode) ==
    [amountMicros |-> MathRoundString(Times(ToDouble(parseFloat(v)), Million)),
     currencyCode |-> currencyCode]

----------------------------------------------------------------------------
(* transform.                                                              *)

\* The statements that fill an object: obj.key = value, or the same under
\* an if. Assigned(stmts) is the object after running them in order, so a
\* later assignment to a key replaces an earlier one.
If(cond, key, value) == [cond |-> cond, key |-> key, value |-> value]

\* Always as a conditional assignment: a key other than price is set only
\* for a truthy value
WhenTruthy(key, value) == If(key = "price" \/ Truthy(value), key, value)

Always(key, value) == If(TRUE, key, value)

Assigned(stmts) ==
    LET ran == {i \in 1..Len(stmts) : stmts[i].cond}
        last(k) == CHOOSE i \in ran :
                       /\ stmts[i].key = k
                       /\ \A j \in ran : stmts[j].key = k => j <= i
    IN [k \in {stmts[i].key : i \in ran} |-> stmts[last(k)].value]

customLabelAt(customLabels, i) ==
    IF i <= Len(customLabels) THEN customLabels[i] ELSE Undefined

\* {value, unit} of a shipping dimension, f the names of its two fields
dimension(shippingAndReturns, f) ==
    [value |-> Fld(shippingAndReturns, f[1]),
     unit |-> Fld(shippingAndReturns, f[2])]

\* customAttributesOf with the return policy entry after the entries of
\* additional_product_attributes
customAttributesOfPolicyLast(feedProductVariant) ==
    LET returnPolicyLabels == getReturnPolicyLabels(feedProductVariant)
        additionalProductAttributes == getAdditionalProductAttributes(feedProductVariant)
        policy == IF Truthy(returnPolicyLabels) /\ Len(Items(returnPolicyLabels)) > 0
                  THEN <<[name |-> <<"r", "e", "t", "u", "r", "n", "_", "p", "o", "l", "i", "c", "y", "_", "l", "a", "b", "e", "l">>,
                          value |-> join(Items(returnPolicyLabels), <<",">>)]>>
                  ELSE <<>>
        entries == IF Has(additionalProductAttributes)
                   THEN additionalProductAttributes.entries ELSE <<>>
    IN [i \in 1..Len(entries) |->
           [name |-> entries[i][1],
            value |-> IF IsList(entries[i][2])
                      THEN join(Items(entries[i][2]), <<",">>)
                      ELSE entries[i][2]]] \o policy

\* the customAttributes list
customAttributesOf(feedProductVariant) ==
    LET returnPolicyLabels == getReturnPolicyLabels(feedProductVariant)
        additionalProductAttributes == getAdditionalProductAttributes(feedProductVariant)
        policy == IF Truthy(returnPolicyLabels) /\ Len(Items(returnPolicyLabels)) > 0
                  THEN <<[name |-> <<"r", "e", "t", "u", "r", "n", "_", "p", "o", "l", "i", "c", "y", "_", "l", "a", "b", "e", "l">>,
                          value |-> join(Items(returnPolicyLabels), <<",">>)]>>
                  ELSE <<>>
        entries == IF Has(additionalProductAttributes)
                   THEN additionalProductAttributes.entries ELSE <<>>
    IN policy \o [i \in 1..Len(entries) |->
                    [name |-> entries[i][1],
                     value |-> IF IsList(entries[i][2])
                               THEN join(Items(entries[i][2]), <<",">>)
                               ELSE entries[i][2]]]

\* the attributes object
attributesOf(in, now) ==
    LET shop == in.shop
        feed == in.feed
        product == in.product
        variant == in.variant
        feedProductVariant == in.feedProductVariant
        \* the price object of an override that parses as a number
        parsed(value, currencyCode) ==
            IF Truthy(value) /\ parseFloat(value) # NaN
            THEN microsPrice(value, currencyCode) ELSE NoObj
        \* the assignments, given what the resolvers returned
        assignments(currencyCode, brand, gtinsMpn, link, canonicalLink,
                    imageLink, additionalImageLinks, price, salePrice,
                    autoPricingMinPriceMicros, maximumRetailPriceMicros,
                    condition, availability, productTypes,
                    googleProductCategory, customLabels, apparel, details,
                    shipping) == <<
        Always("itemGroupId", getItemGroupId(feedProductVariant)),
        Always("title", getTitle(feed, product, variant, feedProductVariant)),
        Always("description",
               getDescription(feed, product, variant, feedProductVariant)),
        Always("identifierExists", getIdentifierExists(feedProductVariant)),
        Always("price",
               [amountMicros |->
                    getPriceAmountMicros(product, variant, feedProductVariant),
                currencyCode |-> currencyCode]),
        If(Truthy(brand), "brand", brand),
        If(Truthy(Fld(gtinsMpn, "gtins")) /\ Len(Items(Fld(gtinsMpn, "gtins"))) > 0,
           "gtins", Fld(gtinsMpn, "gtins")),
        If(Truthy(Fld(gtinsMpn, "mpn")), "mpn", Fld(gtinsMpn, "mpn")),
        If(Truthy(link), "link", link),
        If(Truthy(canonicalLink), "canonicalLink", canonicalLink),
        If(Truthy(imageLink), "imageLink", imageLink),
        If(Len(Items(additionalImageLinks)) > 0,
           "additionalImageLinks", additionalImageLinks),
        If(Truthy(price), "price",
           [amountMicros |-> price, currencyCode |-> currencyCode]),
        If(Has(salePrice), "salePrice", Sub(salePrice, "salePrice")),
        If(Has(salePrice), "salePriceEffectiveDate",
           Fld(salePrice, "salePriceEffectiveDate")),
        If(Has(autoPricingMinPriceMicros), "autoPricingMinPrice", autoPricingMinPriceMicros),
        If(Has(maximumRetailPriceMicros), "maximumRetailPrice", maximumRetailPriceMicros),
        If(Truthy(condition), "condition", condition),
        If(Truthy(availability), "availability", availability),
        If(Truthy(productTypes) /\ Len(Items(productTypes)) > 0,
           "productTypes", productTypes),
        If(Truthy(googleProductCategory),
           "googleProductCategory", googleProductCategory),
        If(Truthy(customLabelAt(customLabels, 1)),
           "customLabel0", customLabelAt(customLabels, 1)),
        If(Truthy(customLabelAt(customLabels, 2)),
           "customLabel1", customLabelAt(customLabels, 2)),
        If(Truthy(customLabelAt(customLabels, 3)),
           "customLabel2", customLabelAt(customLabels, 3)),
        If(Truthy(customLabelAt(customLabels, 4)),
           "customLabel3", customLabelAt(customLabels, 4)),
        If(Truthy(customLabelAt(customLabels, 5)),
           "customLabel4", customLabelAt(customLabels, 5)),
        If(Truthy(Fld(apparel, "gender")), "gender", Fld(apparel, "gender")),
        If(Truthy(Fld(apparel, "age_group")), "ageGroup", Fld(apparel, "age_group")),
        If(Truthy(Fld(apparel, "size")), "size", Fld(apparel, "size")),
        If(Truthy(Fld(apparel, "size_type")), "sizeTypes", Fld(apparel, "size_type")),
        If(Truthy(Fld(apparel, "size_system")),
           "sizeSystem", Fld(apparel, "size_system")),
        If(Truthy(Fld(apparel, "color")), "color", Fld(apparel, "color")),
        If(Truthy(Fld(apparel, "material")), "material", Fld(apparel, "material")),
        If(Truthy(Fld(apparel, "pattern")), "pattern", Fld(apparel, "pattern")),
        If(Truthy(Fld(details, "adult")), "adult", Fld(details, "adult")),
        If(Truthy(Fld(details, "is_bundle")), "isBundle", Fld(details, "is_bundle")),
        If(Truthy(Fld(details, "multipack")), "multipack", Fld(details, "multipack")),
        If(Truthy(Fld(details, "energy_efficiency_class")),
           "energyEfficiencyClass", Fld(details, "energy_efficiency_class")),
        If(Truthy(Fld(details, "min_energy_efficiency_class")),
           "minEnergyEfficiencyClass", Fld(details, "min_energy_efficiency_class")),
        If(Truthy(Fld(details, "max_energy_efficiency_class")),
           "maxEnergyEfficiencyClass", Fld(details, "max_energy_efficiency_class")),
        If(Truthy(Fld(details, "product_highlights")),
           "productHighlights", Fld(details, "product_highlights")),
        If(Truthy(Fld(details, "certifications")),
           "certifications", Fld(details, "certifications")),
        If(Truthy(Fld(shipping, "shipping_label")),
           "shippingLabel", Fld(shipping, "shipping_label")),
        If(Truthy(Fld(shipping, "shipping_weight_value")), "shippingWeight",
           dimension(shipping, <<"shipping_weight_value", "shipping_weight_unit">>)),
        If(Truthy(Fld(shipping, "shipping_length_value")), "shippingLength",
           dimension(shipping, <<"shipping_length_value", "shipping_length_unit">>)),
        If(Truthy(Fld(shipping, "shipping_width_value")), "shippingWidth",
           dimension(shipping, <<"shipping_width_value", "shipping_width_unit">>)),
        If(Truthy(Fld(shipping, "shipping_height_value")), "shippingHeight",
           dimension(shipping, <<"shipping_height_value", "shipping_height_unit">>)),
        If(Truthy(Fld(shipping, "transit_time_label")),
           "transitTimeLabel", Fld(shipping, "transit_time_label")),
        If(Truthy(Fld(shipping, "minimun_handling_time")),
           "minHandlingTime", Fld(shipping, "minimun_handling_time")),
        If(Truthy(Fld(shipping, "maximum_handling_time")),
           "maxHandlingTime", Fld(shipping, "maximum_handling_time"))>>
    IN Assigned(assignments(
           toUpperCase(feed.currency),
           getBrand(feed, shop, product, feedProductVariant),
           getGtinsMpn(feed, variant, feedProductVariant),
           getLink(shop, feed, product, variant, feedProductVariant, now),
           getCanonicalLink(shop, feed, product),
           getImageLink(in.mainImage, feedProductVariant),
           getAdditionalImageLinks(feedProductVariant),
           getPrice(variant, feedProductVariant),
           getSalePrice(feed, variant, feedProductVariant),
           parsed(getAutoPricingMinPrice(feedProductVariant),
                  toUpperCase(feed.currency)),
           parsed(getMaximumRetailPrice(feedProductVariant),
                  toUpperCase(feed.currency)),
           getCondition(feedProductVariant),
           getAvailability(feed, feedProductVariant),
           getProductType(product, feedProductVariant),
           getGoogleProductCategory(feed, feedProductVariant),
           getCustomLabels(feedProductVariant),
           getApparelProductDetails(feedProductVariant),
           getAdditionalDetails(feedProductVariant),
           getShippingAndReturns(feedProductVariant)))

buildProductInputName(accountId, channel, contentLanguage, feedLabel, offerId) ==
    LET productInputId == channel \o <<"~">> \o contentLanguage \o <<"~">>
                          \o feedLabel \o <<"~">> \o offerId
    IN <<"a", "c", "c", "o", "u", "n", "t", "s", "/">> \o accountId
       \o <<"/", "p", "r", "o", "d", "u", "c", "t", "I", "n", "p", "u", "t", "s", "/">>
       \o productInputId

\* productInputName with the label before the language
productInputNameLabelFirst(accountId, channel, contentLanguage, feedLabel, offerId) ==
    <<"a", "c", "c", "o", "u", "n", "t", "s", "/">> \o accountId
    \o <<"/", "p", "r", "o", "d", "u", "c", "t", "I", "n", "p", "u", "t", "s", "/">>
    \o channel \o <<"~">> \o feedLabel \o <<"~">> \o contentLanguage
    \o <<"~">> \o offerId

\* the template literal accounts/{accountId}/productInputs/{channel}~...~{offerId}
productInputName(accountId, channel, contentLanguage, feedLabel, offerId) ==
    <<"a", "c", "c", "o", "u", "n", "t", "s", "/">> \o accountId
    \o <<"/", "p", "r", "o", "d", "u", "c", "t", "I", "n", "p", "u", "t", "s", "/">>
    \o channel \o <<"~">> \o contentLanguage \o <<"~">> \o feedLabel
    \o <<"~">> \o offerId

\* the record that transform(input) returns when the clock reads now
\* What the engine throws for value.method() when value is undefined or
\* null: a TypeError whose message names the value and the method.
TypeError(value, method) ==
    [threw |-> "TypeError",
     message |-> <<"C", "a", "n", "n", "o", "t", " ", "r", "e", "a", "d", " ", "p", "r", "o", "p", "e", "r", "t", "i", "e", "s", " ", "o", "f", " ">> \o ToStr(value) \o <<" ", "(", "r", "e", "a", "d", "i", "n", "g", " ">>
                 \o <<"'">> \o method \o <<"'", ")">>]

\* transform that reads feed.tracking.utm_source without the test of
\* feed.tracking before it: a feed without tracking makes it throw
transformReadingTracking(in, now) ==
    LET feed == in.feed
        accountId == getAccountId(feed)
        offerId == getProductId(feed, in.feedProductVariant)
        channel == <<"O", "N", "L", "I", "N", "E">>
        contentLanguage == toLowerCase(feed.language)
        feedLabel == toUpperCase(feed.market)
        name == IF Truthy(accountId)
                THEN productInputName(accountId, channel, contentLanguage,
                                      feedLabel, offerId)
                ELSE Undefined
        result == [channel |-> channel,
                   offerId |-> offerId,
                   contentLanguage |-> contentLanguage,
                   feedLabel |-> feedLabel,
                   attributes |-> attributesOf(in, now),
                   customAttributes |-> customAttributesOf(in.feedProductVariant)]
    IN IF IsNil(feed.currency) THEN TypeError(feed.currency, <<"t", "o", "U", "p", "p", "e", "r", "C", "a", "s", "e">>)
       ELSE IF ~Has(feed.tracking) THEN TypeError(Undefined, <<"u", "t", "m", "_", "s", "o", "u", "r", "c", "e">>)
       ELSE IF IsNil(feed.language) THEN TypeError(feed.language, <<"t", "o", "L", "o", "w", "e", "r", "C", "a", "s", "e">>)
       ELSE IF IsNil(feed.market) THEN TypeError(feed.market, <<"t", "o", "U", "p", "p", "e", "r", "C", "a", "s", "e">>)
       ELSE SetIf(Truthy(name), result, "name", name)

\* The record transform returns, or the error it throws: feed.currency is
\* dereferenced first (line 75), feed.language and feed.market after the
\* attributes are built (lines 288, 289).
transform(in, now) ==
    LET feed == in.feed
        accountId == getAccountId(feed)
        offerId == getProductId(feed, in.feedProductVariant)
        channel == <<"O", "N", "L", "I", "N", "E">>
        contentLanguage == toLowerCase(feed.language)
        feedLabel == toUpperCase(feed.market)
        name == IF Truthy(accountId)
                THEN productInputName(accountId, channel, contentLanguage,
                                      feedLabel, offerId)
                ELSE Undefined
        result == [channel |-> channel,
                   offerId |-> offerId,
                   contentLanguage |-> contentLanguage,
                   feedLabel |-> feedLabel,
                   attributes |-> attributesOf(in, now),
                   customAttributes |-> customAttributesOf(in.feedProductVariant)]
    IN IF IsNil(feed.currency) THEN TypeError(feed.currency, <<"t", "o", "U", "p", "p", "e", "r", "C", "a", "s", "e">>)
       ELSE IF IsNil(feed.language) THEN TypeError(feed.language, <<"t", "o", "L", "o", "w", "e", "r", "C", "a", "s", "e">>)
       ELSE IF IsNil(feed.market) THEN TypeError(feed.market, <<"t", "o", "U", "p", "p", "e", "r", "C", "a", "s", "e">>)
       ELSE SetIf(Truthy(name), result, "name", name)

\* the input after transform(input): getAdditionalDetails has assigned the
\* renamed certifications to field_mapping.additional_details
inputAfterTransform(in) ==
    IF /\ ~IsNil(in.feed.currency)
       /\ Has(in.feedProductVariant.field_mapping)
       /\ Has(in.feedProductVariant.field_mapping.additional_details)
    THEN [in EXCEPT !.feedProductVariant.field_mapping.additional_details =
                        getAdditionalDetails(in.feedProductVariant)]
    ELSE in


----------------------------------------------------------------------------
(* The inputs of the model. Every optional field is present in the record, *)
(* undefined when the caller left it out.                                  *)

NoProductDetails ==
    [item_group_id |-> Undefined, product_title |-> Undefined,
     description |-> Undefined, brand |-> Undefined,
     product_identifier |-> Undefined, gtin |-> Undefined, mpn |-> Undefined]

NoLinks ==
    [product_url |-> Undefined, utm_source |-> Undefined,
     utm_medium |-> Undefined, utm_campaign |-> Undefined]

NoPriceConditionAvailability ==
    [price |-> Undefined, enable_sale_price |-> Undefined,
     sale_price |-> Undefined, sale_start_date |-> Undefined,
     sale_end_date |-> Undefined, auto_pricing_min_price |-> Undefined,
     maximum_retail_price |-> Undefined, condition |-> Undefined,
     availability |-> Undefined, product_type |-> Undefined,
     google_product_category |-> Undefined]

NoAdditionalDetails ==
    [adult |-> Undefined, is_bundle |-> Undefined, multipack |-> Undefined,
     energy_efficiency_class |-> Undefined,
     min_energy_efficiency_class |-> Undefined,
     max_energy_efficiency_class |-> Undefined,
     product_highlights |-> Undefined, certifications |-> Undefined]

\* a field_mapping document with none of its groups
NoGroups ==
    [product_details |-> NoObj, links |-> NoObj, product_images |-> NoObj,
     price_condition_availability |-> NoObj, labels |-> NoObj,
     apparel_product_details |-> NoObj, additional_details |-> NoObj,
     shipping_and_returns |-> NoObj, additional_product_attributes |-> NoObj]

NoTracking ==
    [utm_source |-> Undefined, utm_medium |-> Undefined, utm_campaign |-> Undefined]

BaseSettings ==
    [product_id |-> <<"{", "{", "s", "h", "o", "p", "_", "i", "d", "}", "}", "_", "{", "{", "p", "r", "o", "d", "u", "c", "t", "_", "i", "d", "}", "}", "_", "{", "{", "v", "a", "r", "i", "a", "n", "t", "_", "i", "d", "}", "}">>,
     product_title |-> <<"{", "{", "p", "r", "o", "d", "u", "c", "t", "_", "t", "i", "t", "l", "e", "}", "}">>,
     product_description |-> <<"{", "{", "d", "e", "s", "c", "r", "i", "p", "t", "i", "o", "n", "}", "}">>,
     brand_submission |-> <<"v", "e", "n", "d", "o", "r">>,
     product_identifier |-> <<"n", "o">>,
     enable_sale_price |-> False]

BaseInput ==
    [shop |-> [shop_name |-> <<"A", "c", "m", "e", " ", "S", "t", "o", "r", "e">>, domain |-> <<"s", "h", "o", "p", ".", "c", "o", "m">>],
     feed |-> [id |-> <<"f", "1">>, shop_id |-> <<"s", "1">>, language |-> <<"E", "N">>,
               market |-> <<"u", "s">>, currency |-> <<"u", "s", "d">>,
               product_settings |-> BaseSettings,
               metadata |-> [google_merchant_center |->
                                [account |-> [account_id |-> <<"1", "2", "3">>],
                                 product_category_id |-> Undefined]],
               tracking |-> NoObj,
               inventory |-> NoObj],
     product |-> [id |-> <<"p", "1">>, title |-> <<"S", "h", "i", "r", "t">>, description |-> <<"N", "i", "c", "e">>,
                  vendor |-> <<"A", "c", "m", "e">>, handle |-> <<"t", "e", "e">>,
                  product_type |-> Undefined, category |-> NoObj,
                  collections |-> NoObj, tags |-> NoObj, seo |-> NoObj],
     variant |-> [id |-> <<"v", "1">>, title |-> <<"R", "e", "d">>, display_name |-> Undefined,
                  sku |-> <<"S", "1">>, barcode |-> <<"1", "2", "3">>,
                  price |-> Num(10, 0), compare_at_price |-> Null],
     mainImage |-> Null,
     feedProductVariant |-> [product_id |-> <<"p", "1">>, variant_id |-> <<"v", "1">>,
                             field_mapping |-> NoObj, metadata |-> NoObj]]

\* the input with field_mapping[group] = value
WithGroup(in, group, value) ==
    [in EXCEPT !.feedProductVariant.field_mapping =
        IF Has(@) THEN [@ EXCEPT ![group] = value]
        ELSE [NoGroups EXCEPT ![group] = value]]

\* prices: 4.1 and 8.2 are decimals whose product with 1000000 is not exact
\* in binary floating point
Prices == {Undefined, Num(0, 0), Num(10, 0), Num(1999, 2), Num(41, 1)}

CompareAtPrices == {Undefined, Null, Num(25, 0), Num(82, 1)}

\* field_mapping as far as the price source goes: absent, without the
\* group, or with price_condition_availability.price set
PriceMappings ==
    {NoObj, NoGroups}
    \cup {[NoGroups EXCEPT !.price_condition_availability =
              [NoPriceConditionAvailability EXCEPT !.price = p]] :
          p \in {Undefined, <<"p", "r", "i", "c", "e">>, <<"c", "o", "m", "p", "a", "r", "e", "_", "a", "t", "_", "p", "r", "i", "c", "e">>, <<"m", "s", "r", "p">>}}

PriceInputs ==
    {[BaseInput EXCEPT !.variant.price = p, !.variant.compare_at_price = c,
                       !.feedProductVariant.field_mapping = m] :
     p \in Prices, c \in CompareAtPrices, m \in PriceMappings}

IdentifierMappings ==
    {NoObj, NoGroups}
    \cup {[NoGroups EXCEPT !.product_details =
              [NoProductDetails EXCEPT !.product_identifier = e,
                                       !.gtin = g, !.mpn = m]] :
          e \in {Undefined, True, False},
          g \in {Undefined, <<"{", "{", "b", "a", "r", "c", "o", "d", "e", "}", "}">>, <<" ">>, <<"G", "-", "{", "{", "s", "k", "u", "}", "}">>},
          m \in {Undefined, <<"{", "{", "s", "k", "u", "}", "}">>}}

IdentifierSettings ==
    {NoObj}
    \cup {[BaseSettings EXCEPT !.product_identifier = t] :
          t \in {Undefined, <<"n", "o">>, <<"g", "t", "i", "n">>, <<"m", "p", "n">>}}

IdentifierInputs ==
    {[BaseInput EXCEPT !.feed.product_settings = s,
                       !.feedProductVariant.field_mapping = m,
                       !.variant.barcode = b, !.variant.sku = k] :
     s \in IdentifierSettings, m \in IdentifierMappings,
     b \in {Null, <<"1", "2", "3">>}, k \in {Null, <<"S", "1">>}}

SaleMappings ==
    {NoObj, NoGroups}
    \cup {[NoGroups EXCEPT !.price_condition_availability =
              [NoPriceConditionAvailability EXCEPT !.enable_sale_price = e,
                                                   !.sale_price = t]] :
          e \in {Undefined, True, False},
          t \in {Undefined, <<"p", "r", "i", "c", "e">>, <<"c", "o", "m", "p", "a", "r", "e", "_", "a", "t", "_", "p", "r", "i", "c", "e">>, <<"m", "s", "r", "p">>}}

SaleSettings ==
    {NoObj}
    \cup {[BaseSettings EXCEPT !.enable_sale_price = e] :
          e \in {Undefined, True, False}}

SaleInputs ==
    {[BaseInput EXCEPT !.feed.product_settings = s,
                       !.feedProductVariant.field_mapping = m] :
     s \in SaleSettings, m \in SaleMappings}

Certification(authority, name, code, value) ==
    [authority |-> authority, name |-> name, code |-> code, value |-> value]

CertificationLists ==
    {Undefined,
     List(<<>>),
     List(<<Certification(<<"E", "C">>, <<"E", "P", "R", "E", "L">>, <<"1", "2", "3">>, <<"A">>)>>),
     List(<<Certification(<<"E", "C">>, Undefined, <<"7">>, Undefined),
            Certification(Undefined, <<"E", "P", "R", "E", "L">>, Undefined, <<>>)>>)}

CertificationInputs ==
    {BaseInput, WithGroup(BaseInput, "links", NoObj)}
    \cup {WithGroup(BaseInput, "additional_details",
                    [NoAdditionalDetails EXCEPT !.certifications = c, !.adult = a]) :
          c \in CertificationLists, a \in {Undefined, True}}

AccountMetadata ==
    {NoObj,
     [google_merchant_center |-> NoObj],
     [google_merchant_center |-> [account |-> NoObj,
                                  product_category_id |-> Undefined]]}
    \cup {[google_merchant_center |-> [account |-> [account_id |-> a],
                                       product_category_id |-> Undefined]] :
          a \in {Undefined, Null, <<>>, <<"1", "2", "3">>, <<"9">>}}

OfferMetadata ==
    {NoObj, [google_merchant_center |-> NoObj]}
    \cup {[google_merchant_center |-> [offer_id |-> o]] :
          o \in {Undefined, <<>>, <<"X", "1">>}}

AccountInputs ==
    {[BaseInput EXCEPT !.feed.metadata = a, !.feed.language = l,
                       !.feed.market = m, !.feedProductVariant.metadata = o] :
     a \in AccountMetadata, l \in {<<"E", "N">>, <<"f", "r">>}, m \in {<<"u", "s">>, <<"G", "B">>},
     o \in OfferMetadata}

TitleTemplates ==
    {<<"{", "{", "p", "r", "o", "d", "u", "c", "t", "_", "t", "i", "t", "l", "e", "}", "}", " ", "-", " ", "{", "{", "s", "k", "u", "}", "}">>, <<"{", "{", "s", "k", "u", "}", "}", "/", "{", "{", "p", "r", "o", "d", "u", "c", "t", "_", "t", "i", "t", "l", "e", "}", "}">>,
     <<"{", "{", "u", "n", "k", "n", "o", "w", "n", "}", "}", " ", "{", "{", "s", "k", "u", "}", "}">>, <<"{", "{", "s", "k", "u", "}", "}", " ", "{", "{", "s", "k", "u", "}", "}">>}

\* source values: plain text, text that is itself a placeholder, and text
\* that holds a replacement pattern of String.prototype.replace
TitleValues == {<<"S", "h", "i", "r", "t">>, <<"{", "{", "s", "k", "u", "}", "}">>, <<"A", "$", "&", "B">>}

SkuValues == {Null, <<"S", "1">>, <<"{", "{", "b", "a", "r", "c", "o", "d", "e", "}", "}">>}

DescriptionTemplates == {<<"{", "{", "d", "e", "s", "c", "r", "i", "p", "t", "i", "o", "n", "}", "}">>, <<"{", "{", "s", "e", "o", "_", "d", "e", "s", "c", "r", "i", "p", "t", "i", "o", "n", "}", "}", ":", " ", "{", "{", "d", "e", "s", "c", "r", "i", "p", "t", "i", "o", "n", "}", "}">>}

DescriptionValues == {<<"N", "i", "c", "e">>, <<"{", "{", "s", "e", "o", "_", "d", "e", "s", "c", "r", "i", "p", "t", "i", "o", "n", "}", "}">>, <<"5", "0", "$">>}

TemplateInputs ==
    {[WithGroup(BaseInput, "product_details",
                [NoProductDetails EXCEPT !.product_title = o])
        EXCEPT !.feed.product_settings.product_title = t,
               !.product.title = v, !.variant.sku = k] :
     t \in TitleTemplates, o \in {Undefined, <<"{", "{", "s", "k", "u", "}", "}", ":", " ", "{", "{", "p", "r", "o", "d", "u", "c", "t", "_", "t", "i", "t", "l", "e", "}", "}">>},
     v \in TitleValues, k \in SkuValues}
    \cup {[BaseInput EXCEPT !.feed.product_settings.product_description = t,
                            !.product.description = v, !.product.seo = s] :
          t \in DescriptionTemplates, v \in DescriptionValues,
          s \in {NoObj, [title |-> <<"T">>, description |-> <<"S", "E", "O">>]}}

Trackings ==
    {NoObj}
    \cup {[utm_source |-> s, utm_medium |-> m, utm_campaign |-> c] :
          s \in {Undefined, <<"g", "o", "o", "g", "l", "e">>}, m \in {Undefined, <<"c", "p", "c">>},
          c \in {Undefined, <<"x", "?", "y">>}}

LinkMappings ==
    {NoObj, NoGroups}
    \cup {[NoGroups EXCEPT !.links =
              [product_url |-> u, utm_source |-> s, utm_medium |-> m,
               utm_campaign |-> c]] :
          u \in {Undefined, <<"p", "r", "o", "d", "u", "c", "t", "_", "u", "r", "l">>, <<"p", "r", "o", "d", "u", "c", "t", "_", "c", "h", "e", "c", "k", "o", "u", "t", "_", "u", "r", "l">>,
                 <<"c", "a", "n", "o", "n", "i", "c", "a", "l", "_", "u", "r", "l">>},
          s \in {Undefined, <<"f", "b">>}, m \in {Undefined, <<"e", "m", "a", "i", "l">>},
          c \in {Undefined, <<"s", "p", "r", "i", "n", "g">>}}

LinkInputs ==
    {[BaseInput EXCEPT !.feed.tracking = t,
                       !.feedProductVariant.field_mapping = m] :
     t \in Trackings, m \in LinkMappings}

\* field_mapping.labels with each of the five labels set or not
LabelInputs ==
    {WithGroup(BaseInput, "labels",
               [custom_label_0 |-> a, custom_label_1 |-> b, custom_label_2 |-> c,
                custom_label_3 |-> d, custom_label_4 |-> e]) :
     a \in {Undefined, <<"s", "a", "l", "e">>}, b \in {Undefined, <<"n", "e", "w">>},
     c \in {Undefined, <<"s", "u", "m", "m", "e", "r">>}, d \in {Undefined, <<"t", "o", "p">>},
     e \in {Undefined, <<"c", "l", "e", "a", "r", "a", "n", "c", "e">>}}

NoShippingAndReturns ==
    [shipping_label |-> Undefined,
     shipping_weight_value |-> Undefined, shipping_weight_unit |-> Undefined,
     shipping_length_value |-> Undefined, shipping_length_unit |-> Undefined,
     shipping_width_value |-> Undefined, shipping_width_unit |-> Undefined,
     shipping_height_value |-> Undefined, shipping_height_unit |-> Undefined,
     transit_time_label |-> Undefined, minimun_handling_time |-> Undefined,
     maximum_handling_time |-> Undefined, return_policy_labels |-> Undefined]

\* field_mapping.shipping_and_returns as far as the return policy labels go
ReturnPolicyGroups ==
    {NoObj}
    \cup {[NoShippingAndReturns EXCEPT !.return_policy_labels = l] :
          l \in {Undefined, List(<<>>), List(<<<<"f", "r", "e", "e">>>>),
                 List(<<<<"f", "r", "e", "e">>, <<"3", "0", "d">>>>)}}

\* field_mapping.additional_product_attributes, each by its entries in the
\* order of Object.entries: values are strings, lists of strings, numbers
\* and booleans, and a key may be the name of the return policy entry
AdditionalProductAttributes ==
    {NoObj, [entries |-> <<>>],
     [entries |-> <<<<<<"s", "e", "a", "s", "o", "n">>, <<"s", "u", "m", "m", "e", "r">>>>>>],
     [entries |-> <<<<<<"s", "t", "y", "l", "e">>, <<"s", "l", "i", "m">>>>,
                    <<<<"f", "a", "b", "r", "i", "c">>, List(<<<<"w", "o", "o", "l">>, <<"s", "i", "l", "k">>>>)>>>>],
     [entries |-> <<<<<<"r", "e", "t", "u", "r", "n", "_", "p", "o", "l", "i", "c", "y", "_", "l", "a", "b", "e", "l">>, <<"n", "o", "n", "e">>>>>>],
     [entries |-> <<<<<<"p", "a", "c", "k">>, Num(5, 0)>>, <<<<"e", "c", "o">>, True>>>>]}

CustomAttributeInputs ==
    {WithGroup(WithGroup(BaseInput, "shipping_and_returns", r),
               "additional_product_attributes", a) :
     r \in ReturnPolicyGroups, a \in AdditionalProductAttributes}

\* feeds with the required currency, language and market present, absent
\* or null
RequiredFieldInputs ==
    {[BaseInput EXCEPT !.feed.currency = c, !.feed.language = l,
                       !.feed.market = m] :
     c \in {<<"u", "s", "d">>, Undefined, Null}, l \in {<<"E", "N">>, Undefined, Null},
     m \in {<<"u", "s">>, Undefined, Null}}

\* an input in which every optional field of the shop, the feed, the
\* product and the variant is present, without a field mapping
FullDefaults ==
    [shop |-> [shop_name |-> <<"A", "c", "m", "e", " ", "S", "t", "o", "r", "e">>, domain |-> <<"s", "h", "o", "p", ".", "c", "o", "m">>],
     feed |-> [id |-> <<"f", "1">>, shop_id |-> <<"s", "1">>, language |-> <<"E", "N">>,
               market |-> <<"u", "s">>, currency |-> <<"u", "s", "d">>,
               product_settings |->
                   [product_id |-> <<"{", "{", "s", "h", "o", "p", "_", "i", "d", "}", "}", "_", "{", "{", "p", "r", "o", "d", "u", "c", "t", "_", "i", "d", "}", "}", "_", "{", "{", "v", "a", "r", "i", "a", "n", "t", "_", "i", "d", "}", "}">>,
                    product_title |-> <<"{", "{", "p", "r", "o", "d", "u", "c", "t", "_", "t", "i", "t", "l", "e", "}", "}", " ", "{", "{", "s", "e", "o", "_", "t", "i", "t", "l", "e", "}", "}">>,
                    product_description |-> <<"{", "{", "d", "e", "s", "c", "r", "i", "p", "t", "i", "o", "n", "}", "}", " ", "{", "{", "s", "e", "o", "_", "d", "e", "s", "c", "r", "i", "p", "t", "i", "o", "n", "}", "}">>,
                    brand_submission |-> <<"s", "t", "o", "r", "e", "_", "n", "a", "m", "e">>,
                    product_identifier |-> <<"g", "t", "i", "n">>,
                    enable_sale_price |-> True],
               metadata |-> [google_merchant_center |->
                                [account |-> [account_id |-> <<"1", "2", "3">>],
                                 product_category_id |-> Num(2271, 0)]],
               tracking |-> [utm_source |-> <<"g", "o", "o", "g", "l", "e">>, utm_medium |-> <<"c", "p", "c">>,
                             utm_campaign |-> <<"f", "a", "l", "l">>],
               inventory |-> [type |-> <<"c", "u", "s", "t", "o", "m">>, custom_setting |-> <<"p", "r", "e", "o", "r", "d", "e", "r">>]],
     product |-> [id |-> <<"p", "1">>, title |-> <<"S", "h", "i", "r", "t">>, description |-> <<"N", "i", "c", "e">>,
                  vendor |-> <<"A", "c", "m", "e">>, handle |-> <<"t", "e", "e">>,
                  product_type |-> <<"T", "o", "p", "s">>,
                  category |-> [name |-> <<"S", "h", "i", "r", "t", "s">>, full_name |-> <<"A", "p", "p", "a", "r", "e", "l", " ", ">", " ", "S", "h", "i", "r", "t", "s">>],
                  collections |-> [collections |-> List(<<[title |-> <<"S", "u", "m", "m", "e", "r">>]>>)],
                  tags |-> [tags |-> List(<<<<"c", "o", "t", "t", "o", "n">>>>)],
                  seo |-> [title |-> <<"T">>, description |-> <<"S", "E", "O">>]],
     variant |-> [id |-> <<"v", "1">>, title |-> <<"R", "e", "d">>, display_name |-> <<"S", "h", "i", "r", "t", " ", "-", " ", "R", "e", "d">>,
                  sku |-> <<"S", "1">>, barcode |-> <<"1", "2", "3">>,
                  price |-> Num(10, 0), compare_at_price |-> Num(25, 0)],
     mainImage |-> <<"i", ".", "p", "n", "g">>,
     feedProductVariant |-> [product_id |-> <<"p", "1">>, variant_id |-> <<"v", "1">>,
                             field_mapping |-> NoObj,
                             metadata |-> [google_merchant_center |->
                                              [offer_id |-> <<"X", "1">>]]]]

\* a field mapping with every group and every override set
FullMapping ==
    [product_details |->
         [item_group_id |-> <<"{", "{", "p", "r", "o", "d", "u", "c", "t", "_", "i", "d", "}", "}">>, product_title |-> <<"{", "{", "d", "i", "s", "p", "l", "a", "y", "_", "n", "a", "m", "e", "}", "}">>,
          description |-> <<"{", "{", "d", "e", "s", "c", "r", "i", "p", "t", "i", "o", "n", "}", "}">>, brand |-> <<"v", "e", "n", "d", "o", "r">>,
          product_identifier |-> True, gtin |-> <<"{", "{", "b", "a", "r", "c", "o", "d", "e", "}", "}">>, mpn |-> <<"{", "{", "s", "k", "u", "}", "}">>],
     links |-> [product_url |-> <<"p", "r", "o", "d", "u", "c", "t", "_", "c", "h", "e", "c", "k", "o", "u", "t", "_", "u", "r", "l">>, utm_source |-> <<"f", "b">>,
                utm_medium |-> <<"e", "m", "a", "i", "l">>, utm_campaign |-> <<"s", "p", "r", "i", "n", "g">>],
     product_images |-> [main_image |-> <<"m", ".", "p", "n", "g">>,
                         additional_images |-> List(<<<<"a", ".", "p", "n", "g">>>>)],
     price_condition_availability |->
         [price |-> <<"c", "o", "m", "p", "a", "r", "e", "_", "a", "t", "_", "p", "r", "i", "c", "e">>, enable_sale_price |-> True,
          sale_price |-> <<"p", "r", "i", "c", "e">>, sale_start_date |-> <<"2", "0", "2", "6", "-", "0", "1", "-", "0", "1">>,
          sale_end_date |-> <<"2", "0", "2", "6", "-", "0", "2", "-", "0", "1">>, auto_pricing_min_price |-> <<"7", ".", "5">>,
          maximum_retail_price |-> <<"3", "0">>, condition |-> <<"n", "e", "w">>,
          availability |-> <<"i", "n", "_", "s", "t", "o", "c", "k">>, product_type |-> <<"c", "o", "l", "l", "e", "c", "t", "i", "o", "n", "s">>,
          google_product_category |-> <<"2", "1", "2">>],
     labels |-> [custom_label_0 |-> <<"s", "a", "l", "e">>, custom_label_1 |-> <<"n", "e", "w">>,
                 custom_label_2 |-> <<"s", "u", "m", "m", "e", "r">>, custom_label_3 |-> <<"t", "o", "p">>,
                 custom_label_4 |-> <<"c", "l", "e", "a", "r", "a", "n", "c", "e">>],
     apparel_product_details |->
         [gender |-> <<"u", "n", "i", "s", "e", "x">>, age_group |-> <<"a", "d", "u", "l", "t">>, size |-> <<"M">>,
          size_type |-> <<"r", "e", "g", "u", "l", "a", "r">>, size_system |-> <<"U", "S">>, color |-> <<"r", "e", "d">>,
          material |-> <<"c", "o", "t", "t", "o", "n">>, pattern |-> <<"p", "l", "a", "i", "n">>],
     additional_details |->
         [adult |-> True, is_bundle |-> True, multipack |-> Num(2, 0),
          energy_efficiency_class |-> <<"A">>, min_energy_efficiency_class |-> <<"D">>,
          max_energy_efficiency_class |-> <<"A">>,
          product_highlights |-> List(<<<<"s", "o", "f", "t">>>>),
          certifications |-> List(<<[authority |-> <<"E", "C">>, name |-> <<"E", "P", "R", "E", "L">>,
                                     code |-> <<"1", "2", "3">>, value |-> <<"A">>]>>)],
     shipping_and_returns |->
         [shipping_label |-> <<"b", "u", "l", "k", "y">>,
          shipping_weight_value |-> Num(2, 0), shipping_weight_unit |-> <<"k", "g">>,
          shipping_length_value |-> Num(3, 0), shipping_length_unit |-> <<"c", "m">>,
          shipping_width_value |-> Num(4, 0), shipping_width_unit |-> <<"c", "m">>,
          shipping_height_value |-> Num(5, 0), shipping_height_unit |-> <<"c", "m">>,
          transit_time_label |-> <<"f", "a", "s", "t">>, minimun_handling_time |-> <<"1">>,
          maximum_handling_time |-> <<"3">>,
          return_policy_labels |-> List(<<<<"f", "r", "e", "e">>>>)],
     additional_product_attributes |-> [entries |-> <<<<<<"s", "e", "a", "s", "o", "n">>, <<"s", "u", "m", "m", "e", "r">>>>>>]]

\* obj with nil in place of the field at the path
RECURSIVE Without(_, _, _)
Without(obj, path, nil) ==
    IF Len(path) = 1 THEN [obj EXCEPT ![path[1]] = nil]
    ELSE [obj EXCEPT ![path[1]] = Without(@, Tail(path), nil)]

\* the optional objects of an input without a field mapping
OptionalObjects ==
    {<<"feed", "product_settings">>, <<"feed", "metadata">>,
     <<"feed", "metadata", "google_merchant_center">>,
     <<"feed", "metadata", "google_merchant_center", "account">>,
     <<"feed", "tracking">>, <<"feed", "inventory">>,
     <<"feedProductVariant", "metadata">>,
     <<"feedProductVariant", "metadata", "google_merchant_center">>,
     <<"product", "seo">>, <<"product", "category">>,
     <<"product", "collections">>, <<"product", "tags">>}

\* its optional and nullable fields
OptionalFields ==
    {<<"mainImage">>, <<"shop", "shop_name">>, <<"shop", "domain">>,
     <<"product", "id">>, <<"product", "title">>, <<"product", "description">>,
     <<"product", "vendor">>, <<"product", "handle">>,
     <<"product", "product_type">>, <<"product", "seo", "title">>,
     <<"product", "seo", "description">>, <<"product", "category", "name">>,
     <<"product", "collections", "collections">>, <<"product", "tags", "tags">>,
     <<"variant", "title">>, <<"variant", "display_name">>, <<"variant", "sku">>,
     <<"variant", "barcode">>, <<"variant", "price">>,
     <<"variant", "compare_at_price">>,
     <<"feed", "product_settings", "product_id">>,
     <<"feed", "product_settings", "product_title">>,
     <<"feed", "product_settings", "product_description">>,
     <<"feed", "product_settings", "brand_submission">>,
     <<"feed", "product_settings", "product_identifier">>,
     <<"feed", "product_settings", "enable_sale_price">>,
     <<"feed", "tracking", "utm_source">>, <<"feed", "inventory", "type">>,
     <<"feed", "inventory", "custom_setting">>,
     <<"feed", "metadata", "google_merchant_center", "account", "account_id">>,
     <<"feed", "metadata", "google_merchant_center", "product_category_id">>,
     <<"feedProductVariant", "metadata", "google_merchant_center", "offer_id">>}

\* the input with nothing optional in it
NoOptionals ==
    [shop |-> [shop_name |-> Null, domain |-> Null],
     feed |-> [id |-> <<"f", "1">>, shop_id |-> <<"s", "1">>, language |-> <<"E", "N">>,
               market |-> <<"u", "s">>, currency |-> <<"u", "s", "d">>,
               product_settings |-> NoObj, metadata |-> NoObj,
               tracking |-> NoObj, inventory |-> NoObj],
     product |-> [id |-> Undefined, title |-> Undefined, description |-> Undefined,
                  vendor |-> Null, handle |-> Undefined,
                  product_type |-> Undefined, category |-> NoObj,
                  collections |-> NoObj, tags |-> NoObj, seo |-> NoObj],
     variant |-> [id |-> <<"v", "1">>, title |-> Undefined, display_name |-> Undefined,
                  sku |-> Null, barcode |-> Null,
                  price |-> Undefined, compare_at_price |-> Null],
     mainImage |-> Null,
     feedProductVariant |-> [product_id |-> <<"p", "1">>, variant_id |-> <<"v", "1">>,
                             field_mapping |-> NoObj, metadata |-> NoObj]]

\* a group of the field mapping with none of its fields
EmptyGroup(g) ==
    IF g = "additional_product_attributes" THEN [entries |-> <<>>]
    ELSE [f \in DOMAIN FullMapping[g] |-> Undefined]

\* Inputs in which the required fields are present and the optional ones
\* are left out one at a time, by group, or all at once.
OptionalInputs ==
    {FullDefaults, NoOptionals,
     [FullDefaults EXCEPT !.feedProductVariant.field_mapping = FullMapping],
     [NoOptionals EXCEPT !.feedProductVariant.field_mapping = FullMapping],
     [NoOptionals EXCEPT !.feedProductVariant.field_mapping = NoGroups]}
    \cup {Without(FullDefaults, p, NoObj) : p \in OptionalObjects}
    \cup {Without(FullDefaults, p, nil) :
          p \in OptionalFields, nil \in {Undefined, Null}}
    \cup {[FullDefaults EXCEPT !.feedProductVariant.field_mapping =
              [FullMapping EXCEPT ![g] = NoObj]] : g \in DOMAIN FullMapping}
    \cup {[NoOptionals EXCEPT !.feedProductVariant.field_mapping =
              [NoGroups EXCEPT ![g] = EmptyGroup(g)]] : g \in DOMAIN FullMapping}

\* field_mapping.price_condition_availability with the two price overrides:
\* decimals, text, a decimal comma, a unit after the number, a number
OverridePrices ==
    {Undefined, <<"7", ".", "5">>, <<"a", "b", "c">>, <<"1", "9", ",", "9", "9">>, <<" ", "3", "0">>, <<"7", ".", "5", " ", "U", "S", "D">>, Num(12, 0)}

OverridePriceInputs ==
    {WithGroup(BaseInput, "price_condition_availability",
               [NoPriceConditionAvailability EXCEPT
                    !.auto_pricing_min_price = a, !.maximum_retail_price = m]) :
     a \in OverridePrices, m \in {Undefined, <<"3", "0">>, <<"n", "/", "a">>, <<"4", ".", "1", "0">>}}

\* feed.language and feed.market as free-form text: codes in either case, a
\* locale tag, a three-letter code, names
LocaleInputs ==
    {[BaseInput EXCEPT !.feed.language = l, !.feed.market = m] :
     l \in {<<"e", "n">>, <<"E", "N">>, <<"E", "n">>, <<"e", "n", "-", "U", "S">>, <<"E", "n", "g", "l", "i", "s", "h">>},
     m \in {<<"u", "s">>, <<"U", "S">>, <<"U", "s">>, <<"u", "s", "a">>, <<"U", "n", "i", "t", "e", "d", " ", "S", "t", "a", "t", "e", "s">>}}

\* the brand selectors: the override field_mapping.product_details.brand and
\* the setting feed.product_settings.brand_submission, with the vendor and
\* the shop name present, empty or missing
BrandSelectors ==
    {Undefined, <<"v", "e", "n", "d", "o", "r">>, <<"s", "t", "o", "r", "e", "_", "n", "a", "m", "e">>, <<"p", "r", "i", "m", "a", "r", "y", "_", "d", "o", "m", "a", "i", "n">>, <<"V", "e", "n", "d", "o", "r">>, <<>>}

BrandInputs ==
    {[BaseInput EXCEPT
          !.feedProductVariant.field_mapping =
              [NoGroups EXCEPT !.product_details =
                  [NoProductDetails EXCEPT !.brand = o]],
          !.feed.product_settings.brand_submission = b,
          !.product.vendor = v[1], !.shop.shop_name = v[2]] :
     o \in BrandSelectors,
     b \in {Undefined, <<"v", "e", "n", "d", "o", "r">>, <<"s", "t", "o", "r", "e", "_", "n", "a", "m", "e">>, <<"p", "r", "i", "m", "a", "r", "y", "_", "d", "o", "m", "a", "i", "n">>, <<"o", "t", "h", "e", "r">>},
     v \in {<<<<"A", "c", "m", "e">>, <<"A", "c", "m", "e", " ", "S", "t", "o", "r", "e">>>>, <<Undefined, <<"A", "c", "m", "e", " ", "S", "t", "o", "r", "e">>>>,
            <<<<>>, <<"A", "c", "m", "e", " ", "S", "t", "o", "r", "e">>>>, <<<<"A", "c", "m", "e">>, <<>>>>}}

\* feed.inventory: absent, without a type, and each type with and without a
\* custom setting; with the availability override absent, empty or given
Inventories ==
    {NoObj, [type |-> Undefined, custom_setting |-> <<"i", "n", "_", "s", "t", "o", "c", "k">>]}
    \cup {[type |-> t, custom_setting |-> c] :
          t \in {INVENTORY_TYPES.SHOPIFY_INVENTORY, INVENTORY_TYPES.OUT_OF_STOCK,
                 INVENTORY_TYPES.CUSTOM},
          c \in {Undefined, <<"p", "r", "e", "o", "r", "d", "e", "r">>, <<"i", "n", "_", "s", "t", "o", "c", "k">>}}

AvailabilityInputs ==
    {[BaseInput EXCEPT
          !.feed.inventory = i,
          !.feedProductVariant.field_mapping =
              [NoGroups EXCEPT !.price_condition_availability =
                  [NoPriceConditionAvailability EXCEPT !.availability = a]]] :
     i \in Inventories, a \in {Undefined, <<>>, <<"b", "a", "c", "k", "o", "r", "d", "e", "r">>}}
    \cup {[BaseInput EXCEPT !.feed.inventory = i] : i \in Inventories}

\* offer-id templates of feed.product_settings.product_id (each placeholder
\* at most once), the offer_id of the variant's metadata, and the three ids
ProductIdTemplates ==
    {Undefined, <<>>, <<"{", "{", "s", "h", "o", "p", "_", "i", "d", "}", "}", "_", "{", "{", "p", "r", "o", "d", "u", "c", "t", "_", "i", "d", "}", "}", "_", "{", "{", "v", "a", "r", "i", "a", "n", "t", "_", "i", "d", "}", "}">>,
     <<"s", "k", "u", "-", "{", "{", "v", "a", "r", "i", "a", "n", "t", "_", "i", "d", "}", "}">>, <<"{", "{", "v", "a", "r", "i", "a", "n", "t", "_", "i", "d", "}", "}", "/", "{", "{", "s", "h", "o", "p", "_", "i", "d", "}", "}">>, <<"f", "i", "x", "e", "d">>}

OfferIdInputs ==
    {[BaseInput EXCEPT !.feed.product_settings.product_id = t,
                       !.feedProductVariant.metadata = o,
                       !.feed.shop_id = i[1],
                       !.feedProductVariant.product_id = i[2],
                       !.feedProductVariant.variant_id = i[3],
                       !.feedProductVariant.field_mapping = m] :
     t \in ProductIdTemplates, o \in OfferMetadata,
     i \in {<<<<"s", "1">>, <<"p", "1">>, <<"v", "1">>>>, <<<<"7", "7">>, <<"g", "i", "d", "-", "9">>, <<"4", "0", "-", "2">>>>},
     m \in {NoObj, FullMapping}}

\* templates that hold a placeholder twice, in the item group id, the offer
\* id, the gtin and the mpn, with the sku and the barcode present or missing
RepeatedPlaceholderInputs ==
    {[BaseInput EXCEPT
          !.feed.product_settings.product_id = <<"{", "{", "s", "h", "o", "p", "_", "i", "d", "}", "}", "-", "{", "{", "s", "h", "o", "p", "_", "i", "d", "}", "}", "-", "{", "{", "v", "a", "r", "i", "a", "n", "t", "_", "i", "d", "}", "}">>,
          !.feed.product_settings.product_identifier = t,
          !.variant.sku = k, !.variant.barcode = b,
          !.feedProductVariant.field_mapping =
              [NoGroups EXCEPT !.product_details =
                  [NoProductDetails EXCEPT
                       !.item_group_id = <<"{", "{", "p", "r", "o", "d", "u", "c", "t", "_", "i", "d", "}", "}", "/", "{", "{", "v", "a", "r", "i", "a", "n", "t", "_", "i", "d", "}", "}", "/", "{", "{", "p", "r", "o", "d", "u", "c", "t", "_", "i", "d", "}", "}">>,
                       !.product_identifier = True,
                       !.gtin = <<"{", "{", "b", "a", "r", "c", "o", "d", "e", "}", "}", "{", "{", "b", "a", "r", "c", "o", "d", "e", "}", "}">>,
                       !.mpn = <<"{", "{", "s", "k", "u", "}", "}", "-", "{", "{", "v", "a", "r", "i", "a", "n", "t", "_", "i", "d", "}", "}", "-", "{", "{", "s", "k", "u", "}", "}">>]]] :
     t \in {PRODUCT_IDENTIFIER_TYPES.GTIN, PRODUCT_IDENTIFIER_TYPES.MPN},
     k \in {<<"S", "1">>, Null}, b \in {<<"1", "2", "3">>, Undefined}}

Inputs ==
    PriceInputs \cup IdentifierInputs \cup SaleInputs \cup CertificationInputs
    \cup AccountInputs \cup TemplateInputs \cup LinkInputs
    \cup LabelInputs \cup CustomAttributeInputs \cup RequiredFieldInputs
    \cup OptionalInputs \cup OverridePriceInputs \cup LocaleInputs
    \cup BrandInputs \cup AvailabilityInputs \cup OfferIdInputs
    \cup RepeatedPlaceholderInputs

----------------------------------------------------------------------------
(* The state machine: a caller that holds one input record and calls       *)
(* transform on it, while the wall clock advances.                         *)

NoOutput == [none |-> TRUE]

\* no call of getGoogleToken is under way
NoTokenCall ==
    /\ tokenLike = NoObj
    /\ position = "idle"
    /\ readAt = 0
    /\ refreshCalls = <<>>
    /\ response = NoOutput
    /\ settled = NoOutput

\* new GoogleMerchantProductTransformer(): the class has no constructor and
\* no field, the instance no own property
GoogleMerchantProductTransformer ==
    [constructor |-> "GoogleMerchantProductTransformer"]

\* a transform that keeps the record it returned in a property of the
\* instance and returns it again on the following calls
transformOnMemo(this, in, now) ==
    LET Kept(result) ==
            [this |-> [constructor |-> this.constructor, memo |-> result],
             result |-> result]
    IN IF "memo" \in DOMAIN this
       THEN [this |-> this, result |-> this.memo]
       ELSE Kept(transform(in, now))

\* this.transform(in) at the clock reading now: the instance after the call
\* and what the call returns or throws; no statement of transform or of the
\* methods it calls assigns or reads a property of this
transformOn(this, in, now) == [this |-> this, result |-> transform(in, now)]

Returned(o) == "channel" \in DOMAIN o

Init ==
    /\ input \in Inputs
    /\ given = input
    /\ clock = 0
    /\ calls = 0
    /\ out = NoOutput
    /\ outClock = 0
    /\ prev = NoOutput
    /\ prevClock = 0
    /\ googleMerchantProductTransformer = GoogleMerchantProductTransformer
    /\ NoTokenCall

\* result = googleMerchantProductTransformer.transform(input)
Transform ==
    /\ calls < MaxCalls
    /\ LET Returns(call) ==
               /\ out' = call.result
               /\ googleMerchantProductTransformer' = call.this
       IN Returns(transformOn(googleMerchantProductTransformer, input, clock))
    /\ outClock' = clock
    /\ input' = inputAfterTransform(input)
    /\ prev' = out
    /\ prevClock' = outClock
    /\ calls' = calls + 1
    /\ UNCHANGED <<given, clock>>
    /\ UNCHANGED tokenVars

\* a millisecond passes
Tick ==
    /\ clock < MaxClock
    /\ clock' = clock + 1
    /\ UNCHANGED <<transformerVars, tokenVars>>

Next == Transform \/ Tick

Spec == Init /\ [][Next]_vars

----------------------------------------------------------------------------
(* The caller of the REST layer: one call per product variant, each on a   *)
(* record built for that call, all on the one exported instance.           *)

\* records built independently of each other: they share no object
VariantInputs ==
    {BaseInput, FullDefaults, NoOptionals,
     [FullDefaults EXCEPT !.feedProductVariant.field_mapping = FullMapping],
     [BaseInput EXCEPT !.feed.currency = Undefined],
     [BaseInput EXCEPT !.variant.id = <<"v", "2">>,
                       !.feedProductVariant.variant_id = <<"v", "2">>,
                       !.variant.price = Num(1999, 2)]}

InitVariants == Init /\ input \in VariantInputs

\* result = googleMerchantProductTransformer.transform(record), record
\* being the record of the next product variant
TransformVariant ==
    /\ calls < MaxCalls
    /\ \E record \in VariantInputs :
           /\ given' = record
           /\ input' = inputAfterTransform(record)
           /\ LET Returns(call) ==
                      /\ out' = call.result
                      /\ googleMerchantProductTransformer' = call.this
              IN Returns(transformOn(googleMerchantProductTransformer, record, clock))
    /\ outClock' = clock
    /\ prev' = out
    /\ prevClock' = outClock
    /\ calls' = calls + 1
    /\ UNCHANGED <<clock, tokenVars>>

NextVariants == TransformVariant \/ Tick

SpecVariants == InitVariants /\ [][NextVariants]_vars


----------------------------------------------------------------------------
(* getGoogleToken: the token payload, the clock, the OAuth service and the *)
(* OAuth2 client it asks for new credentials.                              *)

Error(message) == [threw |-> "Error", message |-> message]

\* typeof v === 'string'
typeofString(v) ==
    /\ v \notin {Undefined, Null, True, False, NaN}
    /\ ~IsNum(v)
    /\ ~IsList(v)

\* typeof v === 'number'
typeofNumber(v) == IsNum(v) \/ v = NaN

\* a payload that is null, undefined or not an object is NoObj
isGoogleOAuthToken(obj) ==
    /\ Has(obj)
    /\ typeofString(obj.access_token)
    /\ typeofString(obj.refresh_token)
    /\ typeofString(obj.token_type)
    /\ typeofNumber(obj.expiry_date)

fifteenMinutesMs == 15 * 60 * 1000

\* GoogleOAuthTokenHasExpired with < in the place of <=
GoogleOAuthTokenHasExpiredStrictly(token, now) ==
    IF token.expiry_date = NaN THEN FALSE
    ELSE token.expiry_date[2] - now < fifteenMinutesMs

\* now is what Date.now() returns; a comparison with NaN is false
GoogleOAuthTokenHasExpired(token, now) ==
    IF token.expiry_date = NaN THEN FALSE
    ELSE token.expiry_date[2] - now <= fifteenMinutesMs

\* what oauth2Client.refreshAccessToken() of google-auth-library settles
\* with: credentials with or without each field, or a rejection with an
\* Error or with a value that is no Error (a record with the key value)
ClientResponses ==
    {[credentials |-> [access_token |-> a, refresh_token |-> r,
                       token_type |-> t, expiry_date |-> Num(4500000, 0)]] :
        a \in {<<"n", "e", "w">>, Undefined}, r \in {<<"r", "o", "t", "a", "t", "e", "d">>, Undefined},
        t \in {<<"B", "e", "a", "r", "e", "r">>, Undefined}}
    \cup {[rejected |-> Error(<<"i", "n", "v", "a", "l", "i", "d", "_", "g", "r", "a", "n", "t">>)], [rejected |-> [value |-> <<"t", "i", "m", "e", "o", "u", "t">>]]}

\* GoogleOAuthService.refreshAccessToken(refreshToken), the client having
\* settled with answer: what it throws or returns
refreshAccessToken(refreshToken, answer) ==
    IF "rejected" \in DOMAIN answer THEN [throws |-> answer.rejected]
    ELSE IF ~Truthy(answer.credentials.access_token)
    THEN [throws |-> Error(<<"F", "a", "i", "l", "e", "d", " ", "t", "o", " ", "r", "e", "f", "r", "e", "s", "h", " ", "a", "c", "c", "e", "s", "s", " ", "t", "o", "k", "e", "n">>)]
    ELSE [returns |->
             [access_token |-> answer.credentials.access_token,
              refresh_token |-> Or(answer.credentials.refresh_token, refreshToken),
              token_type |-> Or(answer.credentials.token_type, <<"B", "e", "a", "r", "e", "r">>),
              expiry_date |-> answer.credentials.expiry_date]]

\* the token payloads: every field present, missing or of another type, the
\* expiry dates around fifteen minutes after the first clock readings
TokenPayloads ==
    {NoObj}
    \cup {[access_token |-> a, refresh_token |-> r, token_type |-> t,
           expiry_date |-> e] :
          a \in {<<"o", "l", "d">>, Undefined}, r \in {<<"r", "1">>, <<>>, Undefined},
          t \in {<<"B", "e", "a", "r", "e", "r">>, Undefined},
          e \in {Num(0, 0), Num(fifteenMinutesMs, 0), Num(fifteenMinutesMs + 1, 0),
                 Num(fifteenMinutesMs + 2, 0), Num(fifteenMinutesMs + 3, 0),
                 Num(5000000, 0), NaN, Undefined, <<"5", "0", "0", "0", "0", "0", "0">>}}

InitToken ==
    /\ input = BaseInput
    /\ given = input
    /\ clock = 0
    /\ calls = 0
    /\ out = NoOutput
    /\ outClock = 0
    /\ prev = NoOutput
    /\ prevClock = 0
    /\ googleMerchantProductTransformer = GoogleMerchantProductTransformer
    /\ tokenLike \in TokenPayloads
    /\ position = "idle"
    /\ readAt = 0
    /\ refreshCalls = <<>>
    /\ response = NoOutput
    /\ settled = NoOutput

\* getGoogleToken(tokenLike, oauthService) up to its return, its throw or
\* its await
GetGoogleToken ==
    /\ position = "idle"
    /\ IF ~isGoogleOAuthToken(tokenLike)
       THEN /\ position' = "threw"
            /\ settled' = Error(<<"T", "o", "k", "e", "n", " ", "p", "a", "y", "l", "o", "a", "d", " ", "m", "i", "s", "s", "i", "n", "g", " ", "r", "e", "q", "u", "i", "r", "e", "d", " ", "f", "i", "e", "l", "d", "s">>)
            /\ UNCHANGED <<readAt, refreshCalls>>
       ELSE /\ readAt' = clock
            /\ IF ~GoogleOAuthTokenHasExpired(tokenLike, clock)
               THEN /\ position' = "returned"
                    /\ settled' = [token |-> [access_token |-> tokenLike.access_token,
                                              refresh_token |-> tokenLike.refresh_token,
                                              token_type |-> tokenLike.token_type,
                                              expiry_date |-> tokenLike.expiry_date],
                                   refreshed |-> FALSE]
                    /\ UNCHANGED refreshCalls
               ELSE /\ position' = "awaiting"
                    /\ refreshCalls' = Append(refreshCalls, tokenLike.refresh_token)
                    /\ UNCHANGED settled
    /\ UNCHANGED <<tokenLike, response, clock, transformerVars>>

\* what getGoogleToken does with what refreshAccessToken threw or returned
afterRefresh(refreshed) ==
    IF "throws" \in DOMAIN refreshed
    THEN Error(<<"F", "a", "i", "l", "e", "d", " ", "t", "o", " ", "r", "e", "f", "r", "e", "s", "h", " ", "t", "o", "k", "e", "n", ":", " ">>
               \o (IF "threw" \in DOMAIN refreshed.throws
                   THEN refreshed.throws.message
                   ELSE <<"U", "n", "k", "n", "o", "w", "n", " ", "e", "r", "r", "o", "r">>))
    ELSE [token |-> refreshed.returns, refreshed |-> TRUE]

\* the client settles, refreshAccessToken returns or throws, and
\* getGoogleToken goes on after its await
RefreshSettles ==
    /\ position = "awaiting"
    /\ \E answer \in ClientResponses :
           /\ response' = answer
           /\ LET Settles(with) ==
                      /\ settled' = with
                      /\ position' = IF "threw" \in DOMAIN with
                                     THEN "threw" ELSE "returned"
              IN Settles(afterRefresh(
                     refreshAccessToken(refreshCalls[Len(refreshCalls)], answer)))
    /\ UNCHANGED <<tokenLike, readAt, refreshCalls, clock, transformerVars>>

NextToken == GetGoogleToken \/ RefreshSettles \/ Tick

SpecToken == InitToken /\ [][NextToken]_vars

----------------------------------------------------------------------------
(* Properties of the transformer, each against the state machine Spec.     *)

\* a call has been made and it returned a record
returned == calls >= 1 /\ Returned(out)

attributes == out.attributes

\* the groups of the field mapping the caller gave
mapping(group) == Sub(given.feedProductVariant.field_mapping, group)

----------------------------------------------------------------------------
(* Price.                                                                  *)

\* field_mapping.price_condition_availability.price, undefined when absent
priceOverride == Fld(mapping("price_condition_availability"), "price")

selectedPrice ==
    IF priceOverride = PRICE_TYPES.COMPARE_AT_PRICE
    THEN given.variant.compare_at_price
    ELSE given.variant.price

\* the decimal digits of v * 1000000, v a decimal of at most six fraction
\* digits; a missing or null v counts as 0
exactMicros(v) ==
    IF IsNil(v) THEN <<"0">> ELSE NatToString(v[2] * Pow10(6 - v[3]))

\* C1: after a call, attributes.price.amountMicros is the string of decimal
\* digits of the selected price times 1,000,000, the selected price being
\* variant.compare_at_price under the override 'compare_at_price' and
\* variant.price when the override is absent or 'price'.
C1_PriceAmountMicros ==
    (returned /\ priceOverride \in {Undefined, PRICE_TYPES.PRICE,
                                      PRICE_TYPES.COMPARE_AT_PRICE})
    => attributes.price.amountMicros = exactMicros(selectedPrice)

----------------------------------------------------------------------------
(* Product identifiers.                                                    *)

\* the template-substituted value of field_mapping.product_details[f], the
\* empty string when there is no template
substituted(f) ==
    LET template == Fld(mapping("product_details"), f)
    IN IF Truthy(template)
       THEN replaceTemplateVariables(template, given.variant,
                                     given.feedProductVariant)
       ELSE <<>>

identifierType == Fld(given.feed.product_settings, "product_identifier")

----------------------------------------------------------------------------
(* Sale price.                                                             *)

\* C3: salePrice is in the output if and only if both
\* feed.product_settings.enable_sale_price and
\* field_mapping.price_condition_availability.enable_sale_price are true;
\* it is absent when a flag is false or missing or the group is missing.
C3_SalePricePresence ==
    returned =>
        ("salePrice" \in DOMAIN attributes
         <=> /\ Fld(given.feed.product_settings, "enable_sale_price") = True
             /\ Fld(mapping("price_condition_availability"),
                    "enable_sale_price") = True)

\* a call that returned a sale price
C3_Witness ==
    /\ returned
    /\ "salePrice" \in DOMAIN attributes
    /\ attributes.salePrice.amountMicros = <<"1", "0", "0", "0", "0", "0", "0", "0">>

----------------------------------------------------------------------------
(* Repeated calls and the input record.                                    *)

\* C4: two calls in a row on the same input record with the clock frozen
\* return equal outputs.
C4_RepeatedCallsAgree ==
    (calls >= 2 /\ outClock = prevClock) => out = prev

\* C5: transform has no side effects on its input: after any call the
\* record holds exactly the values the caller gave it.
C5_InputUnchanged == input = given


----------------------------------------------------------------------------
(* The resource name.                                                      *)

accountIdGiven ==
    Fld(Sub(Sub(given.feed.metadata, "google_merchant_center"), "account"),
        "account_id")

\* C6: the output has a name field if and only if
\* feed.metadata.google_merchant_center.account.account_id is a non-empty
\* value; the key is never present with an empty or undefined value.
C6_NamePresence ==
    returned =>
        /\ "name" \in DOMAIN out
           <=> (~IsNil(accountIdGiven) /\ accountIdGiven # <<>>)
        /\ "name" \in DOMAIN out => (~IsNil(out.name) /\ out.name # <<>>)

\* a call on a feed whose account id is the empty string
C6_Witness ==
    /\ returned
    /\ accountIdGiven = <<>>
    /\ "name" \notin DOMAIN out

\* C7: a name that is present equals
\* accounts/{accountId}/productInputs/{channel}~{contentLanguage}~{feedLabel}~{offerId}
\* for the channel, contentLanguage, feedLabel and offerId of the same
\* output, which is what buildProductInputName returns for these values.
C7_NameFormat ==
    (returned /\ "name" \in DOMAIN out) =>
        /\ out.name = <<"a", "c", "c", "o", "u", "n", "t", "s", "/">> \o accountIdGiven \o <<"/", "p", "r", "o", "d", "u", "c", "t", "I", "n", "p", "u", "t", "s", "/">>
                      \o out.channel \o <<"~">> \o out.contentLanguage
                      \o <<"~">> \o out.feedLabel \o <<"~">> \o out.offerId
        /\ out.name = buildProductInputName(accountIdGiven, out.channel,
                                            out.contentLanguage, out.feedLabel,
                                            out.offerId)

\* a call whose name is built from a lower-cased language, an upper-cased
\* market and the offer id of the variant's metadata
C7_Witness ==
    /\ returned
    /\ "name" \in DOMAIN out
    /\ out.name = <<"a", "c", "c", "o", "u", "n", "t", "s", "/", "9", "/", "p", "r", "o", "d", "u", "c", "t", "I", "n", "p", "u", "t", "s", "/", "O", "N", "L", "I", "N", "E", "~", "f", "r", "~", "G", "B", "~", "X", "1">>

----------------------------------------------------------------------------
(* Templates of the title and the description.                             *)

\* the template with every placeholder of the table replaced by its value,
\* in one scan from left to right: what is substituted is never scanned
RECURSIVE substituteAll(_, _)
substituteAll(template, table) ==
    IF template = <<>> THEN <<>>
    ELSE IF \E i \in 1..Len(table) : MatchAt(template, table[i][1], 1)
    THEN LET i == CHOOSE j \in 1..Len(table) : MatchAt(template, table[j][1], 1)
         IN table[i][2]
            \o substituteAll(SubSeq(template, Len(table[i][1]) + 1, Len(template)),
                             table)
    ELSE <<Head(template)>> \o substituteAll(Tail(template), table)

titleTemplate ==
    Or(Fld(mapping("product_details"), "product_title"),
       Or(Fld(given.feed.product_settings, "product_title"), <<>>))

descriptionTemplate ==
    Or(Fld(mapping("product_details"), "description"),
       Or(Fld(given.feed.product_settings, "product_description"), <<>>))

\* the placeholders the title recognises, each with its source value
titleTable ==
    <<<<<<"{", "{", "p", "r", "o", "d", "u", "c", "t", "_", "t", "i", "t", "l", "e", "}", "}">>, Or(given.product.title, <<>>)>>,
      <<<<"{", "{", "v", "a", "r", "i", "a", "n", "t", "_", "t", "i", "t", "l", "e", "}", "}">>, Or(given.variant.title, <<>>)>>,
      <<<<"{", "{", "d", "i", "s", "p", "l", "a", "y", "_", "n", "a", "m", "e", "}", "}">>,
        Or(given.variant.display_name, Or(given.product.title, <<>>))>>,
      <<<<"{", "{", "s", "e", "o", "_", "t", "i", "t", "l", "e", "}", "}">>, Or(Fld(given.product.seo, "title"), <<>>)>>,
      <<<<"{", "{", "s", "k", "u", "}", "}">>, Or(given.variant.sku, <<>>)>>,
      <<<<"{", "{", "b", "a", "r", "c", "o", "d", "e", "}", "}">>, Or(given.variant.barcode, <<>>)>> >>

descriptionTable ==
    <<<<<<"{", "{", "d", "e", "s", "c", "r", "i", "p", "t", "i", "o", "n", "}", "}">>, Or(given.product.description, <<>>)>>,
      <<<<"{", "{", "s", "e", "o", "_", "d", "e", "s", "c", "r", "i", "p", "t", "i", "o", "n", "}", "}">>, Or(Fld(given.product.seo, "description"), <<>>)>> >>

\* C8: the title and the description are their templates with each
\* recognised placeholder replaced by its source value exactly as given:
\* a substituted value is not scanned for placeholders or replacement
\* patterns, the order of processing does not show, and unrecognised
\* placeholders stay verbatim.
C8_LiteralSubstitution ==
    returned =>
        /\ attributes.title = substituteAll(titleTemplate, titleTable)
        /\ attributes.description
               = substituteAll(descriptionTemplate, descriptionTable)


----------------------------------------------------------------------------
(* The product link and its tracking parameters.                           *)

link == attributes.link

questionMarks(s) == {i \in 1..Len(s) : s[i] = "?"}

\* the text after the first '?'
queryOf(s) ==
    LET first == CHOOSE i \in questionMarks(s) : \A j \in questionMarks(s) : i <= j
    IN SubSeq(s, first + 1, Len(s))

\* where the parameters of a query start: at its first character and after
\* each '&'
parameterStarts(q) == {1} \cup {i + 1 : i \in {j \in 1..Len(q) : q[j] = "&"}}

\* the parameter that starts at a: the text up to the next '&'
parameterAt(q, a) ==
    LET ends == {i \in a..Len(q) : q[i] = "&"} \cup {Len(q) + 1}
        end == CHOOSE i \in ends : \A j \in ends : i <= j
    IN SubSeq(q, a, end - 1)

utmNames ==
    [utm_source |-> <<"u", "t", "m", "_", "s", "o", "u", "r", "c", "e">>, utm_medium |-> <<"u", "t", "m", "_", "m", "e", "d", "i", "u", "m">>,
     utm_campaign |-> <<"u", "t", "m", "_", "c", "a", "m", "p", "a", "i", "g", "n">>]

\* the value a tracking parameter is to carry: the override of the links
\* group when present, the feed's value otherwise
utmValue(f) ==
    LET override == Fld(mapping("links"), f)
    IN IF Truthy(override) THEN override ELSE Fld(given.feed.tracking, f)

\* C9: for each of utm_source, utm_medium and utm_campaign the link
\* carries at most one parameter of that name, with the value of
\* field_mapping.links when that override is present and of feed.tracking
\* otherwise.
C9_UtmOverride ==
    returned =>
        \A f \in DOMAIN utmNames :
            LET q == queryOf(link)
                named == {a \in parameterStarts(q) :
                              MatchAt(q, utmNames[f] \o <<"=">>, a)}
            IN /\ Cardinality(named) <= 1
               /\ IF Truthy(utmValue(f))
                  THEN \E a \in named :
                           parameterAt(q, a) = utmNames[f] \o <<"=">> \o utmValue(f)
                  ELSE named = {}

linkType ==
    Or(Fld(mapping("links"), "product_url"), PRODUCT_URL_SOURCE_TYPES.PRODUCT_URL)

\* the link before the tracking parameters, for each link source type, the
\* domain, handle and variant id written as a template literal writes them
baseLink ==
    IF linkType = PRODUCT_URL_SOURCE_TYPES.PRODUCT_URL
    THEN ToStr(given.shop.domain) \o <<"/", "p", "r", "o", "d", "u", "c", "t", "s", "/">> \o ToStr(given.product.handle)
         \o <<"?", "v", "a", "r", "i", "a", "n", "t", "=">> \o ToStr(given.variant.id)
    ELSE IF linkType = PRODUCT_URL_SOURCE_TYPES.PRODUCT_CHECKOUT_URL
    THEN ToStr(given.shop.domain) \o <<"/", "c", "a", "r", "t", "/">> \o ToStr(given.variant.id) \o <<":", "1", "?", "s", "t", "o", "r", "e", "f", "r", "o", "n", "t", "=", "t", "r", "u", "e">>
    ELSE ToStr(given.shop.domain) \o <<"/", "p", "r", "o", "d", "u", "c", "t", "s", "/">> \o ToStr(given.product.handle)

\* the values of the tracking parameters that are set
utmValuesGiven ==
    {v \in {Fld(mapping("links"), f) : f \in DOMAIN utmNames}
           \cup {Fld(given.feed.tracking, f) : f \in DOMAIN utmNames} :
        Truthy(v)}

\* the link is the base link, then '?' when the base has no query string
\* and '&' when it has one, then parameters joined with '&'
appendedAfterBase ==
    LET head == <<"h", "t", "t", "p", "s", ":", "/", "/">> \o baseLink
        rest == SubSeq(link, Len(head) + 2, Len(link))
    IN /\ MatchAt(link, head, 1)
       /\ Len(link) > Len(head) + 1
       /\ link[Len(head) + 1] = (IF questionMarks(baseLink) = {} THEN "?" ELSE "&")
       /\ \A a \in parameterStarts(rest) :
              \E n \in {<<"u", "t", "m", "_", "s", "o", "u", "r", "c", "e", "=">>, <<"u", "t", "m", "_", "m", "e", "d", "i", "u", "m", "=">>, <<"u", "t", "m", "_", "c", "a", "m", "p", "a", "i", "g", "n", "=">>, <<"f", "d", "c", "l", "i", "d", "=">>} :
                  MatchAt(rest, n, a)

\* C10 as stated: the tracking parameters start with '?' when the base link
\* has no query string and with '&' when it has one, the following ones
\* are joined with '&', and so the link holds exactly one '?' (the domain,
\* handle and variant id holding none).
C10_OneQuestionMark ==
    returned => (appendedAfterBase /\ Cardinality(questionMarks(link)) = 1)

\* C10, amended: the same, for tracking values that hold no '?' either.
C10_OneQuestionMarkPlainValues ==
    (returned /\ \A v \in utmValuesGiven : questionMarks(v) = {})
    => (appendedAfterBase /\ Cardinality(questionMarks(link)) = 1)

\* a call for a canonical link, whose base has no query string, with a
\* tracking source from the feed
C10_Witness ==
    /\ returned
    /\ linkType = PRODUCT_URL_SOURCE_TYPES.CANONICAL_URL
    /\ \A v \in utmValuesGiven : questionMarks(v) = {}
    /\ MatchAt(link, <<"h", "t", "t", "p", "s", ":", "/", "/", "s", "h", "o", "p", ".", "c", "o", "m", "/", "p", "r", "o", "d", "u", "c", "t", "s", "/", "t", "e", "e", "?", "u", "t", "m", "_", "s", "o", "u", "r", "c", "e", "=", "g", "o", "o", "g", "l", "e", "&">>, 1)


----------------------------------------------------------------------------
(* Custom labels.                                                          *)

labelNames ==
    <<[from |-> "custom_label_0", to |-> "customLabel0"],
      [from |-> "custom_label_1", to |-> "customLabel1"],
      [from |-> "custom_label_2", to |-> "customLabel2"],
      [from |-> "custom_label_3", to |-> "customLabel3"],
      [from |-> "custom_label_4", to |-> "customLabel4"]>>

\* C11: for each N in 0..4, attributes.customLabelN equals
\* field_mapping.labels.custom_label_N when that override is present and is
\* omitted when it is absent, whatever the other four labels are.
C11_CustomLabelsIndependent ==
    returned =>
        \A n \in 1..Len(labelNames) :
            LET override == Fld(mapping("labels"), labelNames[n].from)
            IN IF Truthy(override)
               THEN /\ labelNames[n].to \in DOMAIN attributes
                    /\ attributes[labelNames[n].to] = override
               ELSE labelNames[n].to \notin DOMAIN attributes


----------------------------------------------------------------------------
(* Custom attributes.                                                      *)

returnPolicyLabelsGiven == Fld(mapping("shipping_and_returns"), "return_policy_labels")

\* the entries of field_mapping.additional_product_attributes, in the
\* mapping's iteration order
attributeEntriesGiven ==
    IF Has(mapping("additional_product_attributes"))
    THEN mapping("additional_product_attributes").entries ELSE <<>>

policyGiven ==
    Truthy(returnPolicyLabelsGiven) /\ Len(Items(returnPolicyLabelsGiven)) > 0

\* C12: customAttributes holds the return_policy_label entry (the labels
\* joined with ',') first when return_policy_labels is non-empty, then
\* exactly one entry per key of additional_product_attributes in the
\* mapping's iteration order, with no de-duplication by name; it is empty
\* when neither override exists.
C12_CustomAttributesOrder ==
    returned =>
        LET list == out.customAttributes
            shift == IF policyGiven THEN 1 ELSE 0
        IN /\ Len(list) = shift + Len(attributeEntriesGiven)
           /\ policyGiven =>
                  list[1] = [name |-> <<"r", "e", "t", "u", "r", "n", "_", "p", "o", "l", "i", "c", "y", "_", "l", "a", "b", "e", "l">>,
                             value |-> join(Items(returnPolicyLabelsGiven), <<",">>)]
           /\ \A i \in 1..Len(attributeEntriesGiven) :
                  list[shift + i].name = attributeEntriesGiven[i][1]

\* a call with two return policy labels and an attribute of the same name
\* as the return policy entry: both entries are in the list, the policy first
C12_Witness ==
    /\ returned
    /\ out.customAttributes
           = <<[name |-> <<"r", "e", "t", "u", "r", "n", "_", "p", "o", "l", "i", "c", "y", "_", "l", "a", "b", "e", "l">>, value |-> <<"f", "r", "e", "e", ",", "3", "0", "d">>],
               [name |-> <<"r", "e", "t", "u", "r", "n", "_", "p", "o", "l", "i", "c", "y", "_", "l", "a", "b", "e", "l">>, value |-> <<"n", "o", "n", "e">>]>>

\* typeof value === 'string'
isString(v) ==
    /\ v \notin {Undefined, Null, True, False, NaN}
    /\ ~IsNum(v)
    /\ ~IsList(v)

\* C13: every entry of customAttributes has a string as its value, for the
\* string, list, number and boolean values of additional_product_attributes;
\* a list is joined with ','.
C13_CustomAttributeValuesAreStrings ==
    returned =>
        \A i \in 1..Len(out.customAttributes) :
            isString(out.customAttributes[i].value)


----------------------------------------------------------------------------
(* Errors.                                                                 *)

requiredNames ==
    [currency |-> <<"c", "u", "r", "r", "e", "n", "c", "y">>, language |-> <<"l", "a", "n", "g", "u", "a", "g", "e">>, market |-> <<"m", "a", "r", "k", "e", "t">>]

\* the required fields of the feed that the caller left out
missingRequired == {f \in DOMAIN requiredNames : IsNil(given.feed[f])}

\* C14: when feed.currency, feed.language or feed.market is absent,
\* transform returns no record and fails with an error that identifies the
\* missing field.
C14_MissingRequiredFieldError ==
    (calls >= 1 /\ missingRequired # {}) =>
        /\ ~Returned(out)
        /\ "threw" \in DOMAIN out
        /\ \E f \in missingRequired : includes(out.message, requiredNames[f])


\* the required fields of the feed are all present
requiredGiven == missingRequired = {}

\* C15: transform returns a record, and does not throw, for every input in
\* which the required fields are present, whichever optional fields, groups
\* and objects are absent or null.
C15_NeverThrowsOnMissingOptionals ==
    (calls >= 1 /\ requiredGiven) =>
        /\ Returned(out)
        /\ DOMAIN out \ {"name"}
               = {"channel", "offerId", "contentLanguage", "feedLabel",
                  "attributes", "customAttributes"}
        /\ {"itemGroupId", "title", "description", "identifierExists", "price"}
               \subseteq DOMAIN out.attributes

\* a call on the input with nothing optional in it: the record holds the
\* required attributes alone, an empty title and the price of zero
C15_Witness ==
    /\ calls >= 1
    /\ given = NoOptionals
    /\ Returned(out)
    /\ out.offerId = <<>>
    /\ out.attributes.title = <<>>
    /\ out.attributes.price = [amountMicros |-> <<"0">>, currencyCode |-> <<"U", "S", "D">>]
    /\ out.customAttributes = <<>>

----------------------------------------------------------------------------
(* C16: price overrides that do not parse.                                 *)

overrideAttribute ==
    [auto_pricing_min_price |-> "autoPricingMinPrice",
     maximum_retail_price |-> "maximumRetailPrice"]

overrideGiven(f) ==
    Fld(Sub(given.feedProductVariant.field_mapping,
            "price_condition_availability"), f)

\* the decimal a value denotes: a number, or a string that, white space
\* around it apart, is digits[.digits] and nothing else; NaN otherwise
decimalOf(v) ==
    IF IsNum(v) THEN v
    ELSE IF ~isString(v) THEN NaN
    ELSE LET t == trim(v)
             i == DigitPrefix(t)
             f == IF i < Len(t) /\ t[i + 1] = "."
                  THEN DigitPrefix(SubSeq(t, i + 2, Len(t))) ELSE 0
             end == IF f > 0 THEN i + 1 + f ELSE i
         IN IF i > 0 /\ end = Len(t)
            THEN Num(DigitsValue(SubSeq(t, 1, i) \o SubSeq(t, i + 2, end)), f)
            ELSE NaN

withoutOverride(f) ==
    [given EXCEPT
         !.feedProductVariant.field_mapping.price_condition_availability[f] =
             Undefined]

\* C16: after a call with the override auto_pricing_min_price (resp.
\* maximum_retail_price) given, when the value is not a decimal number the
\* call returns, autoPricingMinPrice (resp. maximumRetailPrice) is absent and
\* the output is the output of the same input without the override; when it
\* is the decimal p the attribute is {amountMicros: the digits of p times
\* 1,000,000, currencyCode: feed.currency in upper case}.
C16_UnparsableOverrideDropped ==
    \A f \in DOMAIN overrideAttribute :
        (calls >= 1 /\ ~IsNil(overrideGiven(f))) =>
            /\ Returned(out)
            /\ IF decimalOf(overrideGiven(f)) = NaN
               THEN /\ overrideAttribute[f] \notin DOMAIN out.attributes
                    /\ out = transform(withoutOverride(f), outClock)
               ELSE /\ overrideAttribute[f] \in DOMAIN out.attributes
                    /\ out.attributes[overrideAttribute[f]] =
                           [amountMicros |-> exactMicros(decimalOf(overrideGiven(f))),
                            currencyCode |-> toUpperCase(given.feed.currency)]

----------------------------------------------------------------------------
(* C17: the length and case of contentLanguage and feedLabel.              *)

lowercase(s) == \A i \in 1..Len(s) : s[i] \in {Lower[u] : u \in DOMAIN Lower}

uppercase(s) == \A i \in 1..Len(s) : s[i] \in DOMAIN Lower

\* C17: after a call that returns, contentLanguage is exactly 2 lowercase
\* characters and feedLabel exactly 2 uppercase characters, whatever the
\* length and case of feed.language and feed.market.
C17_TwoLetterLanguageAndLabel ==
    returned =>
        /\ Len(out.contentLanguage) = 2 /\ lowercase(out.contentLanguage)
        /\ Len(out.feedLabel) = 2 /\ uppercase(out.feedLabel)

----------------------------------------------------------------------------
(* C18: the currency code of every price in the output.                    *)

priceAttributes ==
    {"price", "salePrice", "autoPricingMinPrice", "maximumRetailPrice"}

\* C18: after a call that returns, attributes.price is present and every
\* one of price, salePrice, autoPricingMinPrice and maximumRetailPrice that
\* is present has the currencyCode feed.currency in upper case.
C18_CurrencyCodeUpperCased ==
    returned =>
        /\ "price" \in DOMAIN attributes
        /\ \A k \in priceAttributes \cap DOMAIN attributes :
               attributes[k].currencyCode = toUpperCase(given.feed.currency)

\* the same for the prices other than salePrice
C18_OtherPrices ==
    returned =>
        /\ "price" \in DOMAIN attributes
        /\ \A k \in (priceAttributes \ {"salePrice"}) \cap DOMAIN attributes :
               attributes[k].currencyCode = toUpperCase(given.feed.currency)

----------------------------------------------------------------------------
(* C19: the brand.                                                         *)

hasValue(v) == ~IsNil(v) /\ v # <<>>

brandOverride ==
    Fld(Sub(given.feedProductVariant.field_mapping, "product_details"), "brand")

brandSubmission == Fld(given.feed.product_settings, "brand_submission")

brandSelector ==
    IF hasValue(brandOverride) THEN brandOverride ELSE brandSubmission

brandRead ==
    IF brandSelector = <<"v", "e", "n", "d", "o", "r">> THEN Fld(given.product, "vendor")
    ELSE IF brandSelector = <<"s", "t", "o", "r", "e", "_", "n", "a", "m", "e">> THEN given.shop.shop_name
    ELSE IF brandSelector = <<"p", "r", "i", "m", "a", "r", "y", "_", "d", "o", "m", "a", "i", "n">> THEN given.shop.domain
    ELSE Undefined

----------------------------------------------------------------------------
(* C20: the availability.                                                  *)

availabilityOverride ==
    Fld(Sub(given.feedProductVariant.field_mapping,
            "price_condition_availability"), "availability")

inventoryType == Fld(given.feed.inventory, "type")

availabilityDefault ==
    IF ~hasValue(inventoryType) THEN Undefined
    ELSE IF inventoryType = <<"c", "u", "s", "t", "o", "m">> THEN given.feed.inventory.custom_setting
    ELSE inventoryType

availabilityExpected ==
    IF hasValue(availabilityOverride) THEN availabilityOverride
    ELSE availabilityDefault

\* C20: after a call that returns, attributes.availability is the override
\* field_mapping.price_condition_availability.availability when it has a
\* value; otherwise it is feed.inventory.custom_setting when
\* feed.inventory.type is 'custom', feed.inventory.type itself for any other
\* type, and absent when the feed has no inventory type.
C20_AvailabilityDefaultAndOverride ==
    returned =>
        IF hasValue(availabilityExpected)
        THEN /\ "availability" \in DOMAIN attributes
             /\ attributes.availability = availabilityExpected
        ELSE "availability" \notin DOMAIN attributes

\* the same, the inventory type 'custom' without a custom setting left aside
C20_CustomSettingGiven ==
    (returned /\ ~(inventoryType = <<"c", "u", "s", "t", "o", "m">>
                   /\ ~hasValue(given.feed.inventory.custom_setting))) =>
        IF hasValue(availabilityExpected)
        THEN /\ "availability" \in DOMAIN attributes
             /\ attributes.availability = availabilityExpected
        ELSE "availability" \notin DOMAIN attributes

----------------------------------------------------------------------------
(* C21: the offer id.                                                      *)

offerIdGiven ==
    Fld(Sub(given.feedProductVariant.metadata, "google_merchant_center"),
        "offer_id")

productIdTemplate == Fld(given.feed.product_settings, "product_id")

\* the text s with the placeholder p, where it stands, replaced by v
placed(s, p, v) ==
    IF indexOf(s, p) = 0 THEN s
    ELSE SubSeq(s, 1, indexOf(s, p) - 1) \o v
         \o SubSeq(s, indexOf(s, p) + Len(p), Len(s))

productIdExpected ==
    IF ~hasValue(productIdTemplate) THEN <<>>
    ELSE placed(placed(placed(productIdTemplate,
                                             <<"{", "{", "s", "h", "o", "p", "_", "i", "d", "}", "}">>, given.feed.shop_id),
                                 <<"{", "{", "p", "r", "o", "d", "u", "c", "t", "_", "i", "d", "}", "}">>, given.feedProductVariant.product_id),
                     <<"{", "{", "v", "a", "r", "i", "a", "n", "t", "_", "i", "d", "}", "}">>, given.feedProductVariant.variant_id)

----------------------------------------------------------------------------
(* C22: the shape of the record.                                           *)

requiredKeys ==
    {"channel", "offerId", "contentLanguage", "feedLabel", "attributes",
     "customAttributes"}

requiredAttributes ==
    {"itemGroupId", "title", "description", "identifierExists", "price"}

\* C22: every record transform returns has channel 'ONLINE', the keys
\* offerId, contentLanguage, feedLabel, attributes and customAttributes, and
\* in attributes the keys itemGroupId, title, description, identifierExists
\* and price, price with amountMicros and currencyCode, each of the
\* required attributes holding a value.
C22_RequiredShape ==
    returned =>
        /\ requiredKeys \subseteq DOMAIN out
        /\ out.channel = <<"O", "N", "L", "I", "N", "E">>
        /\ requiredAttributes \subseteq DOMAIN attributes
        /\ \A k \in requiredAttributes \ {"price"} : attributes[k] # Undefined
        /\ DOMAIN attributes.price = {"amountMicros", "currencyCode"}

\* the record of an input without overrides whose product has no title
C22_Witness ==
    /\ returned
    /\ ~Has(given.feedProductVariant.field_mapping)
    /\ attributes.title = <<>>
    /\ attributes.identifierExists = False
    /\ out.channel = <<"O", "N", "L", "I", "N", "E">>

----------------------------------------------------------------------------
(* C23: no state is carried between calls.                                 *)

----------------------------------------------------------------------------
(* C24: gtins and mpn exclude each other.                                  *)

\* C24: after a call that returns, the output does not hold both gtins and
\* mpn; under the product_identifier 'gtin' mpn is absent and under 'mpn'
\* gtins is absent, whatever field_mapping.product_details.mpn and .gtin
\* resolve to.
C24_GtinsMpnExclusive ==
    returned =>
        /\ ~({"gtins", "mpn"} \subseteq DOMAIN attributes)
        /\ identifierType = <<"g", "t", "i", "n">> => "mpn" \notin DOMAIN attributes
        /\ identifierType = <<"m", "p", "n">> => "gtins" \notin DOMAIN attributes

\* under 'gtin', with both templates resolving to a value: gtins alone
C24_Witness ==
    /\ returned
    /\ identifierType = <<"g", "t", "i", "n">>
    /\ trim(substituted("gtin")) # <<>>
    /\ trim(substituted("mpn")) # <<>>
    /\ "gtins" \in DOMAIN attributes
    /\ "mpn" \notin DOMAIN attributes

----------------------------------------------------------------------------
(* C25: the first occurrence of a placeholder.                             *)

\* the template from position k on, with the first occurrence in the
\* template of each placeholder of the table replaced by its value and
\* everything else, later occurrences included, as it stands
RECURSIVE substituteFirstFrom(_, _, _)
substituteFirstFrom(template, table, k) ==
    IF k > Len(template) THEN <<>>
    ELSE IF \E i \in 1..Len(table) : indexOf(template, table[i][1]) = k
    THEN LET i == CHOOSE j \in 1..Len(table) : indexOf(template, table[j][1]) = k
         IN table[i][2]
            \o substituteFirstFrom(template, table, k + Len(table[i][1]))
    ELSE <<template[k]>> \o substituteFirstFrom(template, table, k + 1)

substituteFirst(template, table) == substituteFirstFrom(template, table, 1)

itemGroupIdTemplate == Fld(mapping("product_details"), "item_group_id")

itemGroupIdTable ==
    <<<<<<"{", "{", "p", "r", "o", "d", "u", "c", "t", "_", "i", "d", "}", "}">>, given.feedProductVariant.product_id>>,
      <<<<"{", "{", "v", "a", "r", "i", "a", "n", "t", "_", "i", "d", "}", "}">>, given.feedProductVariant.variant_id>> >>

productIdTable ==
    <<<<<<"{", "{", "s", "h", "o", "p", "_", "i", "d", "}", "}">>, given.feed.shop_id>>,
      <<<<"{", "{", "p", "r", "o", "d", "u", "c", "t", "_", "i", "d", "}", "}">>, given.feedProductVariant.product_id>>,
      <<<<"{", "{", "v", "a", "r", "i", "a", "n", "t", "_", "i", "d", "}", "}">>, given.feedProductVariant.variant_id>> >>

identifierTable ==
    <<<<<<"{", "{", "b", "a", "r", "c", "o", "d", "e", "}", "}">>, Or(given.variant.barcode, <<>>)>>,
      <<<<"{", "{", "s", "k", "u", "}", "}">>, Or(given.variant.sku, <<>>)>>,
      <<<<"{", "{", "p", "r", "o", "d", "u", "c", "t", "_", "i", "d", "}", "}">>, given.feedProductVariant.product_id>>,
      <<<<"{", "{", "v", "a", "r", "i", "a", "n", "t", "_", "i", "d", "}", "}">>, given.feedProductVariant.variant_id>> >>

\* the six templates against their substitution
firstOccurrenceOnly ==
    /\ attributes.title = substituteFirst(titleTemplate, titleTable)
    /\ attributes.description
           = substituteFirst(descriptionTemplate, descriptionTable)
    /\ hasValue(itemGroupIdTemplate) =>
           attributes.itemGroupId
               = substituteFirst(itemGroupIdTemplate, itemGroupIdTable)
    /\ (~hasValue(offerIdGiven) /\ hasValue(productIdTemplate)) =>
           out.offerId = substituteFirst(productIdTemplate, productIdTable)
    /\ "gtins" \in DOMAIN attributes =>
           attributes.gtins
               = List(<<substituteFirst(Fld(mapping("product_details"), "gtin"),
                                        identifierTable)>>)
    /\ "mpn" \in DOMAIN attributes =>
           attributes.mpn = substituteFirst(Fld(mapping("product_details"), "mpn"),
                                            identifierTable)

\* C25: after a call that returns, the title, the description, the item
\* group id, the offer id, the gtin and the mpn are their templates with the
\* first occurrence of each recognised placeholder replaced by its source
\* value, the empty string for a missing value, and every later occurrence
\* of the same placeholder left as it stands.
C25_FirstOccurrenceOnly == returned => firstOccurrenceOnly

\* a text without a placeholder or a replacement pattern in it
plain(v) == IsNil(v) \/ (indexOf(v, <<"{", "{">>) = 0 /\ indexOf(v, <<"$">>) = 0)

\* the same for source values that are plain text
C25_PlainValues ==
    (returned /\ plain(Fld(given.product, "title"))
              /\ plain(Fld(given.product, "description"))
              /\ plain(given.variant.sku))
        => firstOccurrenceOnly

----------------------------------------------------------------------------
(* C26: the amount of the sale price.                                      *)

salePriceType == Fld(mapping("price_condition_availability"), "sale_price")

\* C26: after a call that returns with attributes.salePrice present, its
\* amountMicros is a non-empty string of decimal digits, the digits of
\* variant.price times 1,000,000 under sale_price 'price' and of
\* variant.compare_at_price times 1,000,000 under 'compare_at_price'; it is
\* a non-empty string of digits also when sale_price is absent or another
\* value.
C26_SalePriceAmountMicros ==
    (returned /\ "salePrice" \in DOMAIN attributes) =>
        /\ attributes.salePrice.amountMicros # <<>>
        /\ \A i \in 1..Len(attributes.salePrice.amountMicros) :
               attributes.salePrice.amountMicros[i] \in Digits
        /\ salePriceType = <<"p", "r", "i", "c", "e">> =>
               attributes.salePrice.amountMicros = exactMicros(given.variant.price)
        /\ salePriceType = <<"c", "o", "m", "p", "a", "r", "e", "_", "a", "t", "_", "p", "r", "i", "c", "e">> =>
               attributes.salePrice.amountMicros
                   = exactMicros(given.variant.compare_at_price)

----------------------------------------------------------------------------
(* C27: the canonical link.                                                *)

----------------------------------------------------------------------------
(* C28: the product link.                                                  *)

productUrlGiven == Fld(mapping("links"), "product_url")

\* the base the claim names for each value of field_mapping.links.product_url
linkBaseExpected ==
    IF ~hasValue(productUrlGiven) \/ productUrlGiven = <<"p", "r", "o", "d", "u", "c", "t", "_", "u", "r", "l">>
    THEN ToStr(given.shop.domain) \o <<"/", "p", "r", "o", "d", "u", "c", "t", "s", "/">> \o ToStr(given.product.handle)
         \o <<"?", "v", "a", "r", "i", "a", "n", "t", "=">> \o ToStr(given.variant.id)
    ELSE IF productUrlGiven = <<"p", "r", "o", "d", "u", "c", "t", "_", "c", "h", "e", "c", "k", "o", "u", "t", "_", "u", "r", "l">>
    THEN ToStr(given.shop.domain) \o <<"/", "c", "a", "r", "t", "/">> \o ToStr(given.variant.id)
         \o <<":", "1", "?", "s", "t", "o", "r", "e", "f", "r", "o", "n", "t", "=", "t", "r", "u", "e">>
    ELSE ToStr(given.shop.domain) \o <<"/", "p", "r", "o", "d", "u", "c", "t", "s", "/">> \o ToStr(given.product.handle)

\* the positions at which the parameter fdclid starts
tokenStarts(s) ==
    {i \in 2..Len(s) : s[i - 1] \in {"?", "&"} /\ MatchAt(s, <<"f", "d", "c", "l", "i", "d", "=">>, i)}

\* C28: after a call that returns, attributes.link is 'https://', then the
\* base selected by field_mapping.links.product_url, then '?' or '&' and the
\* tracking parameters, of which fdclid is there and is the last one, with
\* or without tracking values.
C28_ResolvedLink ==
    returned =>
        /\ "link" \in DOMAIN attributes
        /\ MatchAt(link, <<"h", "t", "t", "p", "s", ":", "/", "/">> \o linkBaseExpected, 1)
        /\ link[Len(<<"h", "t", "t", "p", "s", ":", "/", "/">> \o linkBaseExpected) + 1]
               = (IF questionMarks(linkBaseExpected) = {} THEN "?" ELSE "&")
        /\ \/ MatchAt(link, <<"u", "t", "m", "_">>, Len(<<"h", "t", "t", "p", "s", ":", "/", "/">> \o linkBaseExpected) + 2)
           \/ MatchAt(link, <<"f", "d", "c", "l", "i", "d", "=">>, Len(<<"h", "t", "t", "p", "s", ":", "/", "/">> \o linkBaseExpected) + 2)
        /\ \E i \in tokenStarts(link) :
               /\ i > Len(<<"h", "t", "t", "p", "s", ":", "/", "/">> \o linkBaseExpected)
               /\ \A j \in i..Len(link) : link[j] \notin {"?", "&"}

\* the canonical source type without any tracking value: the token alone
C28_Witness ==
    /\ returned
    /\ productUrlGiven = <<"c", "a", "n", "o", "n", "i", "c", "a", "l", "_", "u", "r", "l">>
    /\ utmValuesGiven = {}
    /\ MatchAt(link, <<"h", "t", "t", "p", "s", ":", "/", "/", "s", "h", "o", "p", ".", "c", "o", "m", "/", "p", "r", "o", "d", "u", "c", "t", "s", "/", "t", "e", "e", "?", "f", "d", "c", "l", "i", "d", "=">>, 1)

----------------------------------------------------------------------------
(* C29: the certifications.                                                *)

certificationsGiven ==
    Fld(Sub(given.feedProductVariant.field_mapping, "additional_details"),
        "certifications")

orEmpty(v) == IF hasValue(v) THEN v ELSE <<>>

certificationsAsGiven ==
    /\ "certifications" \in DOMAIN attributes
    /\ Len(Items(attributes.certifications)) = Len(Items(certificationsGiven))
    /\ \A i \in 1..Len(Items(certificationsGiven)) :
           Items(attributes.certifications)[i]
               = [certificationAuthority |-> orEmpty(Items(certificationsGiven)[i].authority),
                  certificationName |-> orEmpty(Items(certificationsGiven)[i].name),
                  certificationCode |-> orEmpty(Items(certificationsGiven)[i].code),
                  certificationValue |-> orEmpty(Items(certificationsGiven)[i].value)]

\* C29: after every call that returns, the first and the later ones, for an
\* input whose field_mapping.additional_details.certifications is a list,
\* attributes.certifications holds, position by position, the authority,
\* name, code and value of each entry under the names
\* certificationAuthority, certificationName, certificationCode and
\* certificationValue, the empty string for a missing one.
C29_CertificationsRenamed ==
    (returned /\ IsList(certificationsGiven)) => certificationsAsGiven

\* the same for the first call on the input alone
C29_FirstCall ==
    (returned /\ calls = 1 /\ IsList(certificationsGiven)) => certificationsAsGiven

----------------------------------------------------------------------------
(* C30: getGoogleToken, against the state machine SpecToken.               *)

tokenFields == {"access_token", "refresh_token", "token_type", "expiry_date"}

payloadMissingField ==
    ~Has(tokenLike) \/ \E f \in tokenFields : tokenLike[f] = Undefined

payloadWellTyped ==
    /\ Has(tokenLike)
    /\ \A f \in tokenFields \ {"expiry_date"} : isString(tokenLike[f])
    /\ IsNum(tokenLike.expiry_date) \/ tokenLike.expiry_date = NaN

\* the expiry date is fifteen minutes or less after the time the call read
expiryDue ==
    /\ IsNum(tokenLike.expiry_date)
    /\ tokenLike.expiry_date[2] <= readAt + 900000

refreshFailed ==
    \/ "rejected" \in DOMAIN response
    \/ "credentials" \in DOMAIN response
          /\ ~hasValue(response.credentials.access_token)

============================================================================
